---- MODULE Spec2Model ----
(***************************************************************************)
(* Verification model of the meeting-minutes PC worker (pc_worker/):       *)
(*   - the segment merger      (faster_whisper_engine.py, _merge_segments) *)
(*   - the alignment engine    (speaker_diarization.py)                    *)
(*   - the speaker registry    (speaker_matcher.py, main_worker.py)        *)
(*   - the worker job control  (main_worker.py, folder_monitor.py)         *)
(*   - the text chunker        (text_chunker.py)                           *)
(*                                                                         *)
(* Each component has its own specification (SpecMerge, SpecAlign, ...)    *)
(* over the shared variable tuple; the variables of the other components   *)
(* stay at their idle values.                                              *)
(*                                                                         *)
(* Times are integers in ticks of 0.5 s (so 0.5 s = 1, 30 s = 60).         *)
(* Texts are sequences of one-character strings.                           *)
(***************************************************************************)
EXTENDS Integers, Sequences, FiniteSets, TLC

VARIABLES
    \* ---- segment merger (FasterWhisperEngine._merge_segments) ----
    mCfg,       \* [gap, max]: config.merge_gap_threshold, config.merge_max_duration
    mUnits,     \* the argument `segments`
    mPc,        \* "idle" | "loop" | "done"
    mIdx,       \* index (1-based) of the next unit of segments[1:] to visit
    mCur,       \* the local `current`
    mOut,       \* the local `merged`
    \* ---- alignment engine (SpeakerDiarizationEngine.align_with_transcript) ----
    aDiar,      \* the diarization timeline, in the order itertracks() yields it
    aSegs,      \* the caller's current segment list (result of the latest call)
    aIn,        \* the segment list that was passed to the latest call
    aCalls,     \* align_with_transcript calls made so far: 0, 1, or 2 for "two or more"
    \* ---- speaker registry: update_speaker_embedding / save_speaker_embedding ----
    uReg,       \* speakers table: profile id -> voice_embedding column (text or NULL)
    uReg0,      \* the table as it was before any call (history)
    uPc,        \* per caller: "idle" | "attempt" | "save" | "returned" | "raised"
    uArgs,      \* per caller: [id, new, w] of its update_speaker_embedding call
    uRead,      \* per caller: the voice_embedding its latest read returned
    uAttempt,   \* per caller: attempt number of the retry wrapper of update_speaker_embedding
    sAttempt,   \* per caller: attempt number of the retry wrapper of save_speaker_embedding
    dbFailures, \* database errors injected so far
    \* ---- speaker matching in a meeting run (PCWorker.process_meeting, steps 7-8) ----
    pmReg,        \* speakers table of the meeting's user: profile id -> voice_embedding
    pmReg0,       \* the table as it was when the run started (history)
    pmUser,       \* meeting.user_id, the user whose meeting is processed
    pmEmbeddings, \* pipeline_result.speaker_embeddings, as [label, embedding] in dict order
    pmSpeakers,   \* pipeline_result.speakers, by their ids (the diarized labels)
    pmSegments,   \* whether pipeline_result.transcript.segments is non-empty
    pmMatches,    \* the dict speaker_matches: label -> profile id or None
    pmIdx,        \* position of match_speakers in speaker_embeddings.items()
    pmAttempt,    \* attempt number of the retry wrapper of find_similar_speakers
    pmSaved,      \* whether save_transcript has stored the transcript
    pmPc,         \* "step7" | "match" | "transcript" | "speakers" | "completed" | "failed"
    \* ---- worker job control (PCWorker, AudioFileHandler) ----
    watchFolder,      \* whether WATCH_FOLDER_PATH is set (folder-monitor mode)
    maxJobs,          \* MAX_CONCURRENT_JOBS
    is_running,       \* PCWorker.is_running
    current_jobs,     \* PCWorker.current_jobs
    mainPc,           \* position of start(): "init" | "while" | "query" | "loop" | "job" | "stopping" | "exited"
    observing,        \* whether the watchdog observer delivers events
    pending_meetings, \* the local pending_meetings of poll_pending_meetings
    pollIdx,          \* position of its for loop
    meetingStatus,    \* meetings table: meeting id -> status
    processing_files, \* AudioFileHandler.processing_files
    disk,             \* watched folder: file -> size in bytes, or Absent
    handler,          \* per file, its _handle_new_file task: [pc, previous_size, stable_checks]
    \* ---- text chunker (TextChunker.chunk_transcript), times in whole seconds ----
    kCfg,       \* ChunkingConfig: [min, target, max, respect_speaker_changes]
    kSegments,  \* transcript.segments
    kPc,        \* "idle" | "merge" | "chunks" | "done"
    kIdx,       \* index (1-based) of the next element the running loop visits
    kCurrent,   \* _merge_short_segments: the local `current`
    kMerged,    \* _merge_short_segments: the local `merged`
    kAcc,       \* _create_chunks: [texts, start, end, speaker_id, speaker_label]
    kChunks,    \* _create_chunks: the local `chunks`; at "done" the returned list
    kChunkIndex, \* _create_chunks: the local `chunk_index`
    \* ---- STT pipeline run (STTPipeline.process_audio inside process_meeting) ----
    paOpts,        \* [enable_preprocessing, enhance_audio]
    paPc,          \* the call being awaited: "preprocess" | "transcribe" | "diarize" |
                   \* "align" | "embed", or "returned" | "raised"
    paRunning,     \* PCWorker.is_running during the run
    paSegments,    \* the local transcript_segments
    paDiarization, \* the local diarization (tracks), <<>> before stage 3
    paAligned,     \* the local aligned_segments
    paResult,      \* <<>> or <<the PipelineResult returned>>
    paError,       \* None or the type of the exception that left process_audio
    paStages,      \* history: the stages entered, in order
    paFailed,       \* history: the stages whose collaborator call raised
    \* ---- one worker's process_meeting runs (main_worker.py 386-673, 746-789) ----
    rPc, \* per meeting: "idle", the call awaited, or "done"
    rStatus, \* meetings table: meeting id -> status
    rJobs, \* PCWorker.current_jobs
    rFailedAt, \* history: per meeting, the step of the try block that raised, or None
    rHandlerFault, \* history: per meeting, whether a call of _handle_processing_error raised
    \* ---- SpeakerMatcher.calculate_similarity (speaker_matcher.py 348-383) ----
    csA, \* the argument embedding1 (integer components)
    csB, \* the argument embedding2
    csPc, \* "call" | "done"
    csOut, \* <<>> or <<the value returned>>
    \* ---- conversion of recognition records into TranscriptSegments ----
    cvEngine, \* the engine that converts: "whisperx" or "faster_whisper"
    cvRecords, \* the raw records of one transcription batch
    cvIdx, \* index of the record the conversion loop visits next
    cvOut, \* the TranscriptSegments built so far
    cvPc, \* "loop", "returned" or "raised"
    \* ---- retry_with_backoff (utils.py) ----
    rbCfg, \* the decorator arguments max_attempts, initial_delay, backoff_factor, exceptions
    rbAttempt, \* the loop variable attempt
    rbDelay, \* the local delay
    rbHistory, \* the outcome of every invocation of the wrapped function so far
    rbSlept, \* the delays slept so far
    rbPc, \* "call", "sleep", "returned" or "raised"
    rbOutcome, \* <<>>, or the value returned or the exception raised by the wrapper
    \* ---- _apply_template_tags (main_worker.py) ----
    tgMeeting, \* the meetings row: <<>> when absent, else <<[tags, template_id]>>
    tgTemplate, \* the templates row of template "tpl": <<>> when absent, else <<[tags]>>
    tgPc, \* position inside _apply_template_tags
    tgRead, \* the Meeting object fetched by the running call
    tgFetched, \* the Template object fetched by the running call
    tgCalls, \* number of calls of _apply_template_tags that have returned
    tgSwallowed, \* exceptions caught by the except clause so far
    tgDbFailed \* TRUE once a database read has raised

mergeVars == <<mCfg, mUnits, mPc, mIdx, mCur, mOut>>

updateVars == <<uReg, uReg0, uPc, uArgs, uRead, uAttempt, sAttempt, dbFailures>>

alignVars == <<aDiar, aSegs, aIn, aCalls>>

matchVars ==
    <<pmReg, pmReg0, pmUser, pmEmbeddings, pmSpeakers, pmSegments, pmMatches, pmIdx,
      pmAttempt, pmSaved, pmPc>>

workerVars ==
    <<watchFolder, maxJobs, is_running, current_jobs, mainPc, observing,
      pending_meetings, pollIdx, meetingStatus, processing_files, disk, handler>>

chunkVars ==
    <<kCfg, kSegments, kPc, kIdx, kCurrent, kMerged, kAcc, kChunks, kChunkIndex>>

pipelineVars ==
    <<paOpts, paPc, paRunning, paSegments, paDiarization, paAligned, paResult,
      paError, paStages, paFailed>>

runVars ==
    <<rPc, rStatus, rJobs, rFailedAt, rHandlerFault>>

similarityVars ==
    <<csA, csB, csPc, csOut>>

convertVars ==
    <<cvEngine, cvRecords, cvIdx, cvOut, cvPc>>

retryVars ==
    <<rbCfg, rbAttempt, rbDelay, rbHistory, rbSlept, rbPc, rbOutcome>>

taggingVars ==
    <<tgMeeting, tgTemplate, tgPc, tgRead, tgFetched, tgCalls, tgSwallowed, tgDbFailed>>

vars ==
    <<mergeVars, alignVars, updateVars, matchVars,
      workerVars, chunkVars, pipelineVars, runVars,
      similarityVars, convertVars, retryVars,
      taggingVars>>

\* what the actions of one component leave alone
othersOfMerge ==
    <<alignVars, updateVars, matchVars, workerVars,
      chunkVars, pipelineVars, runVars, similarityVars,
      convertVars, retryVars, taggingVars>>

othersOfAlign ==
    <<mergeVars, updateVars, matchVars, workerVars,
      chunkVars, pipelineVars, runVars, similarityVars,
      convertVars, retryVars, taggingVars>>

othersOfUpdate ==
    <<mergeVars, alignVars, matchVars, workerVars,
      chunkVars, pipelineVars, runVars, similarityVars,
      convertVars, retryVars, taggingVars>>

othersOfMatch ==
    <<mergeVars, alignVars, updateVars, workerVars,
      chunkVars, pipelineVars, runVars, similarityVars,
      convertVars, retryVars, taggingVars>>

othersOfWorker ==
    <<mergeVars, alignVars, updateVars, matchVars,
      chunkVars, pipelineVars, runVars, similarityVars,
      convertVars, retryVars, taggingVars>>

othersOfChunk ==
    <<mergeVars, alignVars, updateVars, matchVars,
      workerVars, pipelineVars, runVars, similarityVars,
      convertVars, retryVars, taggingVars>>

othersOfPipeline ==
    <<mergeVars, alignVars, updateVars, matchVars,
      workerVars, chunkVars, runVars, similarityVars,
      convertVars, retryVars, taggingVars>>

othersOfRun ==
    <<mergeVars, alignVars, updateVars, matchVars,
      workerVars, chunkVars, pipelineVars, similarityVars,
      convertVars, retryVars, taggingVars>>

othersOfSimilarity ==
    <<mergeVars, alignVars, updateVars, matchVars,
      workerVars, chunkVars, pipelineVars, runVars,
      convertVars, retryVars, taggingVars>>

othersOfConvert ==
    <<mergeVars, alignVars, updateVars, matchVars,
      workerVars, chunkVars, pipelineVars, runVars,
      similarityVars, retryVars, taggingVars>>

othersOfRetry ==
    <<mergeVars, alignVars, updateVars, matchVars,
      workerVars, chunkVars, pipelineVars, runVars,
      similarityVars, convertVars, taggingVars>>

othersOfTagging ==
    <<mergeVars, alignVars, updateVars, matchVars,
      workerVars, chunkVars, pipelineVars, runVars,
      similarityVars, convertVars, retryVars>>

\* Python's None, for the optional string fields
None == "None"

\* an optional number is <<>> (None) or <<v>>
NoConf == <<>>

(***************************************************************************)
(* Generic helpers                                                         *)
(***************************************************************************)
Range(s) == {s[i] : i \in 1..Len(s)}

SeqsUpTo(S, n) == UNION {[1..k -> S] : k \in 0..n}

Max2(a, b) == IF a >= b THEN a ELSE b

Min2(a, b) == IF a <= b THEN a ELSE b

(***************************************************************************)
(* Text helpers: str.rstrip(), str.lstrip(), str.endswith(tuple)           *)
(***************************************************************************)
Space == " "

RECURSIVE RStrip(_)
RStrip(t) ==
    IF t = <<>> THEN <<>>
    ELSE IF t[Len(t)] = Space THEN RStrip(SubSeq(t, 1, Len(t) - 1))
    ELSE t

RECURSIVE LStrip(_)
LStrip(t) ==
    IF t = <<>> THEN <<>>
    ELSE IF t[1] = Space THEN LStrip(Tail(t))
    ELSE t

\* the tuple passed to endswith at faster_whisper_engine.py:193
\* the full-width marks U+3002, U+FF1F, U+FF01 are written "u3002", "uFF1F", "uFF01"
MergePunct == {".", "?", "!", "u3002", "uFF1F", "uFF01"}

EndsWithAny(t, chars) == t # <<>> /\ t[Len(t)] \in chars

(***************************************************************************)
(* Segment merger                                                          *)
(***************************************************************************)
DefaultMergeGapThreshold == 1     \* 0.5 s

DefaultMergeMaxDuration == 60     \* 30.0 s

\* the dict built from one unit (lines 183-188 and 212-217)
UnitDict(seg) ==
    [start |-> seg.start, end |-> seg.end, text |-> seg.text,
     confidence |-> seg.confidence]

\* should_merge, lines 191-200
ShouldMerge_GapStrict(current, seg, cfg) ==
    LET gap == seg.start - current.end
        merged_duration == seg.end - current.start
        ends_with_punct == EndsWithAny(RStrip(current.text), MergePunct)
    IN  /\ gap < cfg.gap
        /\ merged_duration <= cfg.max
        /\ ~ends_with_punct

ShouldMerge(current, seg, cfg) ==
    LET gap == seg.start - current.end
        merged_duration == seg.end - current.start
        ends_with_punct == EndsWithAny(RStrip(current.text), MergePunct)
    IN  /\ gap <= cfg.gap
        /\ merged_duration <= cfg.max
        /\ ~ends_with_punct

\* current["text"].rstrip() + " " + seg["text"].lstrip(), line 205
MergedText_NoSeparator(curText, segText) == RStrip(curText) \o LStrip(segText)

MergedText(curText, segText) == RStrip(curText) \o <<Space>> \o LStrip(segText)

\* the confidence after a merge, lines 207-208; confidences are even integers
\* so that the halving is exact
MergedConfidence(curConf, segConf) ==
    IF curConf # NoConf /\ segConf # NoConf
    THEN <<(curConf[1] + segConf[1]) \div 2>>
    ELSE curConf

\* the merge branch, lines 204-208
Merged(current, seg) ==
    [start |-> current.start,
     end |-> seg.end,
     text |-> MergedText(current.text, seg.text),
     confidence |-> MergedConfidence(current.confidence, seg.confidence)]

\* lines 179-188: empty input returns [], otherwise current = segments[0]
MergeBegin ==
    /\ mPc = "idle"
    /\ IF mUnits = <<>>
       THEN /\ mPc' = "done"
            /\ UNCHANGED <<mCur, mIdx>>
       ELSE /\ mPc' = "loop"
            /\ mCur' = UnitDict(mUnits[1])
            /\ mIdx' = 2
    /\ UNCHANGED <<mCfg, mUnits, mOut>>
    /\ UNCHANGED othersOfMerge

\* one iteration of `for seg in segments[1:]`, lines 190-217
MergeStep ==
    /\ mPc = "loop"
    /\ mIdx <= Len(mUnits)
    /\ LET seg == mUnits[mIdx]
       IN  IF ShouldMerge(mCur, seg, mCfg)
           THEN /\ mCur' = Merged(mCur, seg)
                /\ mOut' = mOut
           ELSE /\ mOut' = Append(mOut, mCur)
                /\ mCur' = UnitDict(seg)
    /\ mIdx' = mIdx + 1
    /\ UNCHANGED <<mCfg, mUnits, mPc>>
    /\ UNCHANGED othersOfMerge

\* lines 219-222: merged.append(current); return merged
MergeEnd ==
    /\ mPc = "loop"
    /\ mIdx > Len(mUnits)
    /\ mOut' = Append(mOut, mCur)
    /\ mPc' = "done"
    /\ UNCHANGED <<mCfg, mUnits, mIdx, mCur>>
    /\ UNCHANGED othersOfMerge

\* ---- inputs of the merger ----
MaxUnits == 3

MergeTimes == {0, 10, 18, 19, 40}

MergeTexts == {<<>>, <<"A">>, <<"B">>, <<"A", "uFF1F">>}

MergeConfidences == {NoConf, <<-32>>}

\* a recognition unit has start < end; its text was stripped by transcribe (line 124)
MergeUnitSet ==
    {[start |-> sp[1], end |-> sp[2], text |-> t, confidence |-> c] :
        sp \in {p \in MergeTimes \X MergeTimes : p[1] < p[2]},
        t \in MergeTexts, c \in MergeConfidences}

\* the unit lists of length <= n that are time-ordered and do not overlap
RECURSIVE OrderedUnitLists(_)
OrderedUnitLists(n) ==
    IF n = 0 THEN {<<>>}
    ELSE LET shorter == OrderedUnitLists(n - 1)
             longest == {us \in shorter : Len(us) = n - 1}
             Fits(us, u) == us = <<>> \/ us[Len(us)].end <= u.start
         IN  shorter \cup
             UNION {{Append(us, u) : u \in {v \in MergeUnitSet : Fits(us, v)}} :
                        us \in longest}

MergeConfigs ==
    {[gap |-> g, max |-> m] :
        g \in {DefaultMergeGapThreshold, 8}, m \in {18, 40, DefaultMergeMaxDuration}}

MergeIdleCur == [start |-> 0, end |-> 0, text |-> <<>>, confidence |-> NoConf]

(***************************************************************************)
(* Alignment engine                                                        *)
(*                                                                         *)
(* Times of this component are whole seconds.  The timeline is the         *)
(* sequence of (interval, label) pairs in the order the loop at line 226   *)
(* visits them; pyannote yields tracks sorted by (start, end).             *)
(***************************************************************************)
\* (track & pyannote_segment).duration, lines 228-230; an empty intersection is falsy
OverlapDuration(track, seg) ==
    Max2(0, Min2(seg.end_time, track.end) - Max2(seg.start_time, track.start))

\* the loop of lines 223-235 over the first k tracks: [speaker, overlap], where
\* overlap is the numerator of overlap_ratio (its denominator segment_duration
\* is the same positive number for every track of one segment)
RECURSIVE BestAfter_LastWins(_, _, _)
BestAfter_LastWins(diar, seg, k) ==
    IF k = 0 THEN [speaker |-> None, overlap |-> 0]
    ELSE LET best == BestAfter_LastWins(diar, seg, k - 1)
             ov == OverlapDuration(diar[k], seg)
         IN  IF ov > 0 /\ ov >= best.overlap
             THEN [speaker |-> diar[k].label, overlap |-> ov]
             ELSE best

RECURSIVE BestAfter(_, _, _)
BestAfter(diar, seg, k) ==
    IF k = 0 THEN [speaker |-> None, overlap |-> 0]
    ELSE LET best == BestAfter(diar, seg, k - 1)
             ov == OverlapDuration(diar[k], seg)
         IN  IF ov > 0 /\ ov > best.overlap
             THEN [speaker |-> diar[k].label, overlap |-> ov]
             ELSE best

BestSpeaker(diar, seg) == BestAfter(diar, seg, Len(diar)).speaker

\* segment_midpoint, line 217 (computed by the code, used nowhere)
SegmentMidpoint(seg) == seg.start_time + ((seg.end_time - seg.start_time) \div 2)

\* updated_segment, lines 238-246
UpdatedSegment_FromMidpoint(seg, best_speaker) ==
    [meeting_id |-> seg.meeting_id,
     start_time |-> SegmentMidpoint(seg),
     end_time |-> seg.end_time,
     text |-> seg.text,
     confidence |-> seg.confidence,
     speaker_label |-> best_speaker,
     speaker_id |-> None]

UpdatedSegment(seg, best_speaker) ==
    [meeting_id |-> seg.meeting_id,
     start_time |-> seg.start_time,
     end_time |-> seg.end_time,
     text |-> seg.text,
     confidence |-> seg.confidence,
     speaker_label |-> best_speaker,
     speaker_id |-> None]

\* aligned_segments, lines 212-248 and 264
RECURSIVE AlignWithTranscript_DropUnlabelled(_, _)
AlignWithTranscript_DropUnlabelled(diar, segs) ==
    IF segs = <<>> THEN <<>>
    ELSE LET best == BestSpeaker(diar, Head(segs))
             rest == AlignWithTranscript_DropUnlabelled(diar, Tail(segs))
         IN  IF best = None THEN rest
             ELSE <<UpdatedSegment(Head(segs), best)>> \o rest

AlignWithTranscript(diar, segs) ==
    [i \in 1..Len(segs) |-> UpdatedSegment(segs[i], BestSpeaker(diar, segs[i]))]

\* ---- inputs of the alignment engine ----
MaxTracks == 2

MaxSegments == 2

AlignTimes == {0, 4, 6, 10, 20}

DiarLabels == {"S1", "S2"}

TrackSet ==
    {[start |-> sp[1], end |-> sp[2], label |-> l] :
        sp \in {p \in AlignTimes \X AlignTimes : p[1] < p[2]}, l \in DiarLabels}

\* itertracks() order: sorted by start.  The timelines drawn advance in time:
\* a later track starts and ends later (tracks may overlap, none contains another)
TrackBefore(a, b) == a.start < b.start /\ a.end < b.end

RECURSIVE Timelines(_)
Timelines(n) ==
    IF n = 0 THEN {<<>>}
    ELSE LET shorter == Timelines(n - 1)
             longest == {d \in shorter : Len(d) = n - 1}
             Fits(d, t) == d = <<>> \/ TrackBefore(d[Len(d)], t)
         IN  shorter \cup
             UNION {{Append(d, t) : t \in {u \in TrackSet : Fits(d, u)}} : d \in longest}

\* what a transcript segment carries besides its time span; a segment handed to
\* alignment may already carry a label (from an earlier alignment or a stale one)
SegmentPayloads ==
    {[meeting_id |-> "m1", text |-> "x", confidence |-> NoConf,
      speaker_label |-> None, speaker_id |-> None],
     [meeting_id |-> "m2", text |-> "y", confidence |-> <<9>>,
      speaker_label |-> "S1", speaker_id |-> "spk"]}

\* TranscriptSegment allows 0 <= start_time <= end_time (models.py validators)
SegmentSet ==
    {[meeting_id |-> p.meeting_id, start_time |-> sp[1], end_time |-> sp[2],
      text |-> p.text, confidence |-> p.confidence,
      speaker_label |-> p.speaker_label, speaker_id |-> p.speaker_id] :
        sp \in {q \in AlignTimes \X AlignTimes : q[1] <= q[2]}, p \in SegmentPayloads}

\* a transcript's segments are ordered by start time and do not overlap
RECURSIVE OrderedSegmentLists(_)
OrderedSegmentLists(n) ==
    IF n = 0 THEN {<<>>}
    ELSE LET shorter == OrderedSegmentLists(n - 1)
             longest == {ss \in shorter : Len(ss) = n - 1}
             Fits(ss, g) == ss = <<>> \/ ss[Len(ss)].end_time <= g.start_time
         IN  shorter \cup
             UNION {{Append(ss, g) : g \in {h \in SegmentSet : Fits(ss, h)}} : ss \in longest}

\* one call of align_with_transcript on the caller's current segments, lines 186-264
AlignCall ==
    /\ aIn' = aSegs
    /\ aSegs' = AlignWithTranscript(aDiar, aSegs)
    /\ aCalls' = IF aCalls = 0 THEN 1 ELSE 2
    /\ UNCHANGED aDiar
    /\ UNCHANGED othersOfAlign

(***************************************************************************)
(* Exact arithmetic for embedding components and weights.  A number is a   *)
(* fraction [n, d] in lowest terms with d > 0; Python's floats are         *)
(* modelled as the reals they approximate.                                 *)
(***************************************************************************)
Abs(x) == IF x < 0 THEN -x ELSE x

RECURSIVE Gcd(_, _)
Gcd(a, b) == IF b = 0 THEN a ELSE Gcd(b, a % b)

Rat(n, d) ==
    LET g == Gcd(Abs(n), d)
    IN  [n |-> n \div g, d |-> d \div g]

RatAdd(a, b) == Rat(a.n * b.d + b.n * a.d, a.d * b.d)

RatMul(a, b) == Rat(a.n * b.n, a.d * b.d)

RatSub(a, b) == Rat(a.n * b.d - b.n * a.d, a.d * b.d)

RatLeq(a, b) == a.n * b.d <= b.n * a.d

RatZero == [n |-> 0, d |-> 1]

RatOne == [n |-> 1, d |-> 1]

(***************************************************************************)
(* Speaker registry: update_speaker_embedding and save_speaker_embedding   *)
(***************************************************************************)
\* the vector length both functions insist on (768 in the code, lines 215 and 283)
EmbeddingDim == 2

\* max_attempts of @retry_with_backoff on both functions (lines 184 and 254)
MaxAttempts == 3

\* the default weight 0.3 of update_speaker_embedding (line 259)
DefaultWeight == [n |-> 3, d |-> 10]

\* the voice_embedding column is NULL or a pgvector text "[x1,x2,...]": a
\* sequence of tokens [k, v] with k one of "[", ",", "]", "num"
NoEmbedding == <<>>

Sym(c) == [k |-> c, v |-> RatZero]

Num(x) == [k |-> "num", v |-> x]

\* "[" + ",".join(map(str, embedding)) + "]", line 219
RECURSIVE JoinComma(_)
JoinComma(v) ==
    IF v = <<>> THEN <<>>
    ELSE IF Len(v) = 1 THEN <<Num(v[1])>>
    ELSE <<Num(v[1]), Sym(",")>> \o JoinComma(Tail(v))

FormatVector(v) == <<Sym("[")>> \o JoinComma(v) \o <<Sym("]")>>

\* existing_embedding.strip("[]"), line 314
RECURSIVE StripBrackets(_)
StripBrackets(t) ==
    IF t = <<>> THEN <<>>
    ELSE IF t[1].k \in {"[", "]"} THEN StripBrackets(Tail(t))
    ELSE IF t[Len(t)].k \in {"[", "]"} THEN StripBrackets(SubSeq(t, 1, Len(t) - 1))
    ELSE t

\* [float(x) for x in ....split(",")], lines 313-315
RECURSIVE SplitFloats(_)
SplitFloats(t) ==
    IF t = <<>> THEN <<>>
    ELSE IF Head(t).k = "," THEN SplitFloats(Tail(t))
    ELSE <<Head(t).v>> \o SplitFloats(Tail(t))

ParseVector(text) == SplitFloats(StripBrackets(text))

\* new_array * weight + existing_array * (1 - weight), line 324
WeightedAverage_WeightsSwapped(new, existing, w) ==
    [i \in 1..Len(new) |->
        RatAdd(RatMul(new[i], RatSub(RatOne, w)), RatMul(existing[i], w))]

WeightedAverage(new, existing, w) ==
    [i \in 1..Len(new) |->
        RatAdd(RatMul(new[i], w), RatMul(existing[i], RatSub(RatOne, w)))]

\* the argument checks of lines 283-288
ValidUpdateArgs(a) ==
    /\ Len(a.new) = EmbeddingDim
    /\ RatLeq(RatZero, a.w) /\ RatLeq(a.w, RatOne)

\* the vector an attempt hands to save_speaker_embedding, lines 302-331
EmbeddingToSave(a, existing) ==
    IF existing = NoEmbedding THEN a.new
    ELSE WeightedAverage(a.new, ParseVector(existing), a.w)

Callers == {"c1", "c2"}

Profiles == {"p1", "p2"}

\* the wrapper of update_speaker_embedding after a failed attempt, utils.py 266-276
AttemptFailed(c) ==
    IF uAttempt[c] < MaxAttempts
    THEN /\ uAttempt' = [uAttempt EXCEPT ![c] = @ + 1]
         /\ uPc' = [uPc EXCEPT ![c] = "attempt"]
    ELSE /\ uPc' = [uPc EXCEPT ![c] = "raised"]
         /\ UNCHANGED uAttempt

\* ---- inputs of the registry functions ----
MaxDbFailures == 1

UnitVector(i, n) == [j \in 1..n |-> IF j = i THEN RatOne ELSE RatZero]

\* well-formed observed vectors
EmbeddingVectors == {UnitVector(i, EmbeddingDim) : i \in 1..EmbeddingDim}

\* what a caller may pass: a well-formed vector or one of the wrong length
NewVectors == EmbeddingVectors \cup {UnitVector(1, EmbeddingDim - 1)}

Weights == {RatZero, DefaultWeight, RatOne, [n |-> 11, d |-> 10]}

UpdateArgs ==
    {[id |-> i, new |-> v, w |-> w] :
        i \in Profiles \cup {"ghost"}, v \in NewVectors, w \in Weights}

\* a caller invokes update_speaker_embedding(id, new, w), lines 255-279
UpdCall(c) ==
    /\ uPc[c] = "idle"
    /\ \E a \in UpdateArgs : uArgs' = [uArgs EXCEPT ![c] = a]
    /\ uAttempt' = [uAttempt EXCEPT ![c] = 1]
    /\ uPc' = [uPc EXCEPT ![c] = "attempt"]
    /\ UNCHANGED <<uReg, uReg0, uRead, sAttempt, dbFailures>>
    /\ UNCHANGED othersOfUpdate

\* the same, from a caller that runs only while no other call is in progress
UpdCallAlone(c) ==
    /\ \A d \in Callers \ {c} : uPc[d] \in {"idle", "returned", "raised"}
    /\ UpdCall(c)

\* one attempt up to the return of the read, lines 281-302: the argument
\* checks, then the select of the stored embedding (single() raises when the
\* profile does not exist)
UpdAttempt(c) ==
    /\ uPc[c] = "attempt"
    /\ IF ValidUpdateArgs(uArgs[c]) /\ uArgs[c].id \in Profiles
       THEN /\ uRead' = [uRead EXCEPT ![c] = uReg[uArgs[c].id]]
            /\ sAttempt' = [sAttempt EXCEPT ![c] = 1]
            /\ uPc' = [uPc EXCEPT ![c] = "save"]
            /\ UNCHANGED uAttempt
       ELSE /\ AttemptFailed(c)
            /\ UNCHANGED <<uRead, sAttempt>>
    /\ UNCHANGED <<uReg, uReg0, uArgs, dbFailures>>
    /\ UNCHANGED othersOfUpdate

\* the select fails with a database error, lines 341-346
UpdAttemptDbError(c) ==
    /\ uPc[c] = "attempt"
    /\ ValidUpdateArgs(uArgs[c])
    /\ dbFailures < MaxDbFailures
    /\ dbFailures' = dbFailures + 1
    /\ AttemptFailed(c)
    /\ UNCHANGED <<uReg, uReg0, uArgs, uRead, sAttempt>>
    /\ UNCHANGED othersOfUpdate

\* the rest of the attempt, lines 304-339: the average is computed from what
\* was read and save_speaker_embedding (lines 213-245) writes it
UpdSave(c) ==
    /\ uPc[c] = "save"
    /\ LET emb == EmbeddingToSave(uArgs[c], uRead[c])
       IN  IF Len(emb) = EmbeddingDim
           THEN /\ uReg' = [uReg EXCEPT ![uArgs[c].id] = FormatVector(emb)]
                /\ uPc' = [uPc EXCEPT ![c] = "returned"]
                /\ UNCHANGED uAttempt
           ELSE /\ AttemptFailed(c)
                /\ UNCHANGED uReg
    /\ UNCHANGED <<uReg0, uArgs, uRead, sAttempt, dbFailures>>
    /\ UNCHANGED othersOfUpdate

\* the update of the speakers row fails with a database error: the wrapper of
\* save_speaker_embedding retries, and after its last attempt the error fails
\* the attempt of update_speaker_embedding
UpdSaveDbError(c) ==
    /\ uPc[c] = "save"
    /\ dbFailures < MaxDbFailures
    /\ dbFailures' = dbFailures + 1
    /\ IF sAttempt[c] < MaxAttempts
       THEN /\ sAttempt' = [sAttempt EXCEPT ![c] = @ + 1]
            /\ UNCHANGED <<uPc, uAttempt>>
       ELSE /\ AttemptFailed(c)
            /\ UNCHANGED sAttempt
    /\ UNCHANGED <<uReg, uReg0, uArgs, uRead>>
    /\ UNCHANGED othersOfUpdate

(***************************************************************************)
(* Speaker matching in a meeting run: PCWorker.process_meeting steps 7-8,  *)
(* SpeakerMatcher.match_speakers and find_similar_speakers.  The SQL       *)
(* function find_similar_speakers that the RPC invokes lives in the        *)
(* database; it is modelled by its contract.                               *)
(***************************************************************************)
\* threshold=0.7, main_worker.py line 496
MatchThreshold == [n |-> 7, d |-> 10]

\* limit=1, speaker_matcher.py line 144
MatchLimit == 1

RECURSIVE Dot(_, _)
Dot(a, b) ==
    IF a = <<>> \/ b = <<>> THEN RatZero
    ELSE RatAdd(RatMul(Head(a), Head(b)), Dot(Tail(a), Tail(b)))

\* dot(a,b)/(|a||b|) >= t for t >= 0, without square roots; a zero vector is
\* similar to nothing
SimilarityAtLeast(a, b, t) ==
    /\ Dot(a, a) # RatZero /\ Dot(b, b) # RatZero
    /\ RatLeq(RatZero, Dot(a, b))
    /\ RatLeq(RatMul(RatMul(t, t), RatMul(Dot(a, a), Dot(b, b))),
              RatMul(Dot(a, b), Dot(a, b)))

\* similarity(q, a) >= similarity(q, b), for two vectors that are both similar to q
MoreSimilar(q, a, b) ==
    RatLeq(RatMul(RatMul(Dot(q, b), Dot(q, b)), Dot(a, a)),
           RatMul(RatMul(Dot(q, a), Dot(q, a)), Dot(b, b)))

\* the speakers table rows and the user each belongs to
MatchProfiles == {"p1", "p2", "p3"}

ProfileOwner == [p \in MatchProfiles |-> IF p = "p3" THEN "userB" ELSE "userA"]

MatchUsers == {ProfileOwner[p] : p \in MatchProfiles}

\* the profiles of the user with a stored vector whose similarity to q clears
\* the threshold
SimilarProfiles(reg, q, user, t) ==
    {p \in DOMAIN reg :
        /\ ProfileOwner[p] = user
        /\ reg[p] # NoEmbedding
        /\ SimilarityAtLeast(q, ParseVector(reg[p]), t)}

\* the rows the RPC may return for limit 1: one of the most similar profiles,
\* or no row
FindSimilarSpeakers(reg, q, user, t) ==
    LET S == SimilarProfiles(reg, q, user, t)
    IN  IF S = {} THEN {<<>>}
        ELSE {<<p>> : p \in {x \in S : \A y \in S :
                        MoreSimilar(q, ParseVector(reg[x]), ParseVector(reg[y]))}}

\* the id of the first row, or None without rows, speaker_matcher.py 146-156
BestMatch_NoMatch(similar) == None

BestMatch(similar) == IF Len(similar) > 0 THEN similar[1] ELSE None

\* matches[speaker_label] = v
DictPut(m, k, v) == [x \in DOMAIN m \cup {k} |-> IF x = k THEN v ELSE m[x]]

\* match_speakers moves on to the next label, and returns after the last
NextLabel ==
    /\ pmIdx' = pmIdx + 1
    /\ pmAttempt' = 1
    /\ pmPc' = IF pmIdx < Len(pmEmbeddings) THEN "match" ELSE "transcript"

\* an attempt of find_similar_speakers raised: the wrapper retries, and after
\* the last attempt match_speakers records None (speaker_matcher.py 158-160)
FindAttemptFailed_AbortsBatch ==
    IF pmAttempt < MaxAttempts
    THEN /\ pmAttempt' = pmAttempt + 1
         /\ UNCHANGED <<pmMatches, pmIdx, pmPc>>
    ELSE /\ pmMatches' = <<>>
         /\ pmIdx' = pmIdx + 1
         /\ pmAttempt' = 1
         /\ pmPc' = "transcript"

FindAttemptFailed ==
    IF pmAttempt < MaxAttempts
    THEN /\ pmAttempt' = pmAttempt + 1
         /\ UNCHANGED <<pmMatches, pmIdx, pmPc>>
    ELSE /\ pmMatches' = DictPut(pmMatches, pmEmbeddings[pmIdx].label, None)
         /\ NextLabel

\* step 7 begins, main_worker.py 487-497
PmStep7 ==
    /\ pmPc = "step7"
    /\ pmPc' = IF pmEmbeddings # <<>> THEN "match" ELSE "transcript"
    /\ UNCHANGED <<pmReg, pmReg0, pmUser, pmEmbeddings, pmSpeakers, pmSegments, pmMatches,
                   pmIdx, pmAttempt, pmSaved>>
    /\ UNCHANGED othersOfMatch

\* one attempt of find_similar_speakers for the current label returns or
\* raises on the length check, speaker_matcher.py 138-156 and 67-99
PmFindSimilar ==
    /\ pmPc = "match"
    /\ LET e == pmEmbeddings[pmIdx]
       IN  IF Len(e.embedding) # EmbeddingDim
           THEN FindAttemptFailed
           ELSE \E similar \in FindSimilarSpeakers(pmReg, e.embedding, pmUser,
                                                    MatchThreshold) :
                    /\ pmMatches' = DictPut(pmMatches, e.label, BestMatch(similar))
                    /\ NextLabel
    /\ UNCHANGED <<pmReg, pmReg0, pmUser, pmEmbeddings, pmSpeakers, pmSegments, pmSaved>>
    /\ UNCHANGED othersOfMatch

\* the RPC fails, speaker_matcher.py 100-105
PmFindSimilarApiError ==
    /\ pmPc = "match"
    /\ Len(pmEmbeddings[pmIdx].embedding) = EmbeddingDim
    /\ FindAttemptFailed
    /\ UNCHANGED <<pmReg, pmReg0, pmUser, pmEmbeddings, pmSpeakers, pmSegments, pmSaved>>
    /\ UNCHANGED othersOfMatch

\* step 8, first part: the transcript is saved, main_worker.py 518-525
PmSaveTranscript ==
    /\ pmPc = "transcript"
    /\ pmSaved' = pmSegments
    /\ pmPc' = "speakers"
    /\ UNCHANGED <<pmReg, pmReg0, pmUser, pmEmbeddings, pmSpeakers, pmSegments, pmMatches,
                   pmIdx, pmAttempt>>
    /\ UNCHANGED othersOfMatch

\* save_transcript raises: the run ends in _handle_processing_error
PmSaveTranscriptError ==
    /\ pmPc = "transcript"
    /\ pmSegments
    /\ pmPc' = "failed"
    /\ UNCHANGED <<pmReg, pmReg0, pmUser, pmEmbeddings, pmSpeakers, pmSegments, pmMatches,
                   pmIdx, pmAttempt, pmSaved>>
    /\ UNCHANGED othersOfMatch

\* step 8, second part, main_worker.py 527-586 and on to step 10.  With a
\* non-empty speaker list the first statement of the loop (line 531) reads
\* speaker.speaker_label, an attribute the Speaker model (models.py 112-121)
\* does not have: AttributeError, caught at line 663, and the run fails
\* before lines 532-583 are reached.  With an empty list the block is
\* skipped.  No statement of process_meeting writes the voice_embedding of a
\* matched profile.
PmSaveSpeakers ==
    /\ pmPc = "speakers"
    /\ pmPc' = IF pmSpeakers # <<>> THEN "failed" ELSE "completed"
    /\ UNCHANGED <<pmReg, pmReg0, pmUser, pmEmbeddings, pmSpeakers, pmSegments, pmMatches,
                   pmIdx, pmAttempt, pmSaved>>
    /\ UNCHANGED othersOfMatch

\* ---- inputs of a meeting run ----
MaxLabels == 2

SpeakerLabels == <<"SPEAKER_00", "SPEAKER_01", "SPEAKER_02">>

\* a vector close to the first unit vector (similarity about 0.95)
NearFirst ==
    [j \in 1..EmbeddingDim |->
        IF j = 1 THEN [n |-> 3, d |-> 1] ELSE IF j = 2 THEN RatOne ELSE RatZero]

\* vectors found in the registry: two orthogonal ones and the zero vector
StoredVectors ==
    {UnitVector(1, EmbeddingDim), UnitVector(EmbeddingDim, EmbeddingDim),
     [j \in 1..EmbeddingDim |-> RatZero]}

\* vectors observed in a meeting: one equal to a stored one, one close to it,
\* and one of the wrong length
ObservedVectors ==
    {UnitVector(1, EmbeddingDim), NearFirst, UnitVector(1, EmbeddingDim - 1)}

\* the registry before a run: any profiles of the run's users, and for the
\* other user's profile p3 no vector or the first unit vector
Registries ==
    {r \in [MatchProfiles -> {NoEmbedding} \cup {FormatVector(v) : v \in StoredVectors}] :
        r["p3"] \in {NoEmbedding, FormatVector(UnitVector(1, EmbeddingDim))}}

\* the diarized labels, and for some of them an extracted embedding
\* (stt_pipeline.py 214-234)
RECURSIVE EmbeddingDicts(_)
EmbeddingDicts(n) ==
    IF n = 0 THEN {<<>>}
    ELSE {d \o tl : d \in EmbeddingDicts(n - 1),
                     tl \in {<<>>} \cup
                        {<<[label |-> SpeakerLabels[n], embedding |-> v]>> :
                            v \in ObservedVectors}}

(***************************************************************************)
(* Worker job control: PCWorker.start, poll_pending_meetings,              *)
(* process_meeting / process_local_audio entry and exit, stop, and the     *)
(* folder monitor's AudioFileHandler.  One asyncio event loop runs the     *)
(* main coroutine and one _handle_new_file task per accepted file; an      *)
(* action is the code between two awaits.                                  *)
(***************************************************************************)
\* FILE_STABLE_CHECK_COUNT, config.py line 68
FILE_STABLE_CHECK_COUNT == 3

\* MAX_CONCURRENT_JOBS default, config.py line 61
DefaultMaxConcurrentJobs == 1

\* previous_size = -1, folder_monitor.py line 129; also the size of no file
Absent == -1

\* the meetings table in created_at order
Meetings == <<"m1", "m2">>

Files == {"a.m4a", "b.m4a"}

MaxFileSize == 1

MaxJobsLimit == 2

IdleHandler == [pc |-> "none", previous_size |-> Absent, stable_checks |-> 0]

\* select ... status = 'pending' order by created_at limit n, supabase_client.py 83-90
RECURSIVE PendingFrom(_, _, _)
PendingFrom(status, i, n) ==
    IF i > Len(Meetings) \/ n <= 0 THEN <<>>
    ELSE IF status[Meetings[i]] = "pending"
         THEN <<Meetings[i]>> \o PendingFrom(status, i + 1, n - 1)
         ELSE PendingFrom(status, i + 1, n)

GetPendingMeetings(status, limit) == PendingFrom(status, 1, limit)

\* start(), main_worker.py 117-143, up to the first await of the chosen mode;
\* a failed health check returns without stop()
Start ==
    /\ mainPc = "init"
    /\ is_running' = TRUE
    /\ \E healthy \in BOOLEAN :
          IF ~healthy THEN mainPc' = "exited" /\ UNCHANGED observing
          ELSE /\ mainPc' = "while"
               /\ observing' = watchFolder
    /\ UNCHANGED <<watchFolder, maxJobs, current_jobs, pending_meetings, pollIdx,
                   meetingStatus, processing_files, disk, handler>>
    /\ UNCHANGED othersOfWorker

\* _signal_handler, main_worker.py 349-352
SignalHandler ==
    /\ mainPc \notin {"init", "exited"}
    /\ is_running
    /\ is_running' = FALSE
    /\ UNCHANGED <<watchFolder, maxJobs, current_jobs, mainPc, observing,
                   pending_meetings, pollIdx, meetingStatus, processing_files, disk,
                   handler>>
    /\ UNCHANGED othersOfWorker

\* the while test of either mode (lines 148 and 167) and, in polling mode, the
\* entry of poll_pending_meetings up to its query (lines 356-364)
MainLoop ==
    /\ mainPc = "while"
    /\ IF ~is_running THEN mainPc' = "stopping"
       ELSE IF watchFolder \/ current_jobs >= maxJobs THEN mainPc' = "while"
       ELSE mainPc' = "query"
    /\ UNCHANGED <<watchFolder, maxJobs, is_running, current_jobs, observing,
                   pending_meetings, pollIdx, meetingStatus, processing_files, disk,
                   handler>>
    /\ UNCHANGED othersOfWorker

\* get_pending_meetings returns or raises, lines 362-370 and 381-384
PollQuery ==
    /\ mainPc = "query"
    /\ \E ok \in BOOLEAN :
          LET found == IF ok THEN GetPendingMeetings(meetingStatus, maxJobs - current_jobs)
                       ELSE <<>>
          IN  /\ pending_meetings' = found
              /\ pollIdx' = 1
              /\ mainPc' = IF found = <<>> THEN "while" ELSE "loop"
    /\ UNCHANGED <<watchFolder, maxJobs, is_running, current_jobs, observing,
                   meetingStatus, processing_files, disk, handler>>
    /\ UNCHANGED othersOfWorker

\* a finally block that decrements only when no exception was handled
AfterFinally_SuccessOnly(jobs, failed) == IF failed THEN jobs ELSE jobs - 1

\* the finally blocks of process_meeting (line 673) and process_local_audio
\* (line 347): the decrement runs whether or not an exception was handled
AfterFinally(jobs, failed) == jobs - 1

\* one turn of the for loop, lines 374-379, into process_meeting up to its
\* first await (lines 405-419)
PollNext ==
    /\ mainPc = "loop"
    /\ IF pollIdx > Len(pending_meetings) \/ ~is_running
       THEN /\ mainPc' = "while"
            /\ UNCHANGED <<current_jobs, meetingStatus>>
       ELSE /\ current_jobs' = current_jobs + 1
            /\ meetingStatus' = [meetingStatus EXCEPT ![pending_meetings[pollIdx]] = "processing"]
            /\ mainPc' = "job"
    /\ UNCHANGED <<watchFolder, maxJobs, is_running, observing, pending_meetings,
                   pollIdx, processing_files, disk, handler>>
    /\ UNCHANGED othersOfWorker

\* process_meeting ends, lines 621-673: completed, or failed through
\* _handle_processing_error; the finally block decrements
ProcessMeetingEnd ==
    /\ mainPc = "job"
    /\ \E st \in {"completed", "failed"} :
          /\ meetingStatus' = [meetingStatus EXCEPT ![pending_meetings[pollIdx]] = st]
          /\ current_jobs' = AfterFinally(current_jobs, st = "failed")
    /\ pollIdx' = pollIdx + 1
    /\ mainPc' = "loop"
    /\ UNCHANGED <<watchFolder, maxJobs, is_running, observing, pending_meetings,
                   processing_files, disk, handler>>
    /\ UNCHANGED othersOfWorker

\* a file appears in the watched folder and on_created runs,
\* folder_monitor.py 53-85
OnCreated(f) ==
    /\ mainPc # "exited"
    /\ disk[f] = Absent
    /\ \E size \in 0..MaxFileSize : disk' = [disk EXCEPT ![f] = size]
    /\ IF observing /\ f \notin processing_files
       THEN /\ processing_files' = processing_files \cup {f}
            /\ handler' = [handler EXCEPT ![f] = [IdleHandler EXCEPT !.pc = "stable"]]
       ELSE UNCHANGED <<processing_files, handler>>
    /\ UNCHANGED <<watchFolder, maxJobs, is_running, current_jobs, mainPc, observing,
                   pending_meetings, pollIdx, meetingStatus>>
    /\ UNCHANGED othersOfWorker

\* the writer of a file appends to it
FileGrows(f) ==
    /\ mainPc # "exited"
    /\ disk[f] # Absent /\ disk[f] < MaxFileSize
    /\ disk' = [disk EXCEPT ![f] = @ + 1]
    /\ UNCHANGED <<watchFolder, maxJobs, is_running, current_jobs, mainPc, observing,
                   pending_meetings, pollIdx, meetingStatus, processing_files, handler>>
    /\ UNCHANGED othersOfWorker

\* a file is removed from the watched folder
FileRemoved(f) ==
    /\ mainPc # "exited"
    /\ disk[f] # Absent
    /\ disk' = [disk EXCEPT ![f] = Absent]
    /\ UNCHANGED <<watchFolder, maxJobs, is_running, current_jobs, mainPc, observing,
                   pending_meetings, pollIdx, meetingStatus, processing_files, handler>>
    /\ UNCHANGED othersOfWorker

\* _handle_new_file ends: the finally of lines 111-113
HandlerEnds(f) ==
    /\ processing_files' = processing_files \ {f}
    /\ handler' = [handler EXCEPT ![f] = IdleHandler]

\* a counter that goes up on every non-empty size, changed or not
NextStableChecks_NonZeroOnly(stable_checks, previous_size, current_size) ==
    IF current_size > 0 THEN stable_checks + 1 ELSE 0

\* folder_monitor.py 150-164: the counter goes up when the size is non-zero
\* and equal to the size of the previous check, and is reset otherwise
NextStableChecks(stable_checks, previous_size, current_size) ==
    IF current_size = previous_size /\ current_size > 0
    THEN stable_checks + 1 ELSE 0

\* one turn of the loop of _wait_for_file_stable, lines 133-176; after the
\* last one _handle_new_file calls on_file_ready, which enters
\* process_local_audio (main_worker.py 171-197) with no await in between
StableCheck(f) ==
    /\ mainPc # "exited"
    /\ handler[f].pc = "stable"
    /\ IF disk[f] = Absent
       THEN HandlerEnds(f) /\ UNCHANGED current_jobs
       ELSE LET checks == NextStableChecks(handler[f].stable_checks,
                                              handler[f].previous_size, disk[f])
            IN  IF checks < FILE_STABLE_CHECK_COUNT
                THEN /\ handler' = [handler EXCEPT ![f] =
                            [pc |-> "stable", previous_size |-> disk[f],
                             stable_checks |-> checks]]
                     /\ UNCHANGED <<processing_files, current_jobs>>
                ELSE /\ handler' = [handler EXCEPT ![f] =
                            [pc |-> "job", previous_size |-> disk[f],
                             stable_checks |-> checks]]
                     /\ current_jobs' = current_jobs + 1
                     /\ UNCHANGED processing_files
    /\ UNCHANGED <<watchFolder, maxJobs, is_running, mainPc, observing,
                   pending_meetings, pollIdx, meetingStatus, disk>>
    /\ UNCHANGED othersOfWorker

\* max_wait_time has passed, lines 135-140
StableTimeout(f) ==
    /\ mainPc # "exited"
    /\ handler[f].pc = "stable"
    /\ HandlerEnds(f)
    /\ UNCHANGED <<watchFolder, maxJobs, is_running, current_jobs, mainPc, observing,
                   pending_meetings, pollIdx, meetingStatus, disk>>
    /\ UNCHANGED othersOfWorker

\* process_local_audio ends, main_worker.py 337-347, and with it the task
ProcessLocalAudioEnd(f) ==
    /\ mainPc # "exited"
    /\ handler[f].pc = "job"
    /\ \E failed \in BOOLEAN : current_jobs' = AfterFinally(current_jobs, failed)
    /\ HandlerEnds(f)
    /\ UNCHANGED <<watchFolder, maxJobs, is_running, mainPc, observing,
                   pending_meetings, pollIdx, meetingStatus, disk>>
    /\ UNCHANGED othersOfWorker

\* stop(), main_worker.py 791-823: waits until no job is left or the timeout
\* passes, then stops the folder monitor; the event loop closes after it
Stop ==
    /\ mainPc = "stopping"
    /\ is_running' = FALSE
    /\ \E timeout \in BOOLEAN :
          IF current_jobs > 0 /\ ~timeout
          THEN UNCHANGED <<mainPc, observing>>
          ELSE mainPc' = "exited" /\ observing' = FALSE
    /\ UNCHANGED <<watchFolder, maxJobs, current_jobs, pending_meetings, pollIdx,
                   meetingStatus, processing_files, disk, handler>>
    /\ UNCHANGED othersOfWorker

\* the invocations of process_meeting / process_local_audio in progress
JobsInProgress ==
    (IF mainPc = "job" THEN {pending_meetings[pollIdx]} ELSE {})
        \cup {f \in Files : handler[f].pc = "job"}

(***************************************************************************)
(* Text chunker: TextChunker.chunk_transcript, _merge_short_segments,      *)
(* _create_chunks and _is_sentence_end (text_chunker.py).  Times are whole *)
(* seconds; a confidence is in hundredths.                                 *)
(***************************************************************************)
\* ChunkingConfig defaults, lines 29-33
DefaultMinChunkDuration == 3

DefaultTargetChunkDuration == 7

DefaultMaxChunkDuration == 12

\* '.!?' and the full-width forms U+3002, U+FF01, U+FF1F, line 318
SentencePunct == {".", "!", "?", "u3002", "uFF01", "uFF1F"}

\* the Korean endings U+B2E4, U+C694, U+C8E0, U+B124, U+AE4C of
\* KOREAN_SENTENCE_ENDINGS, line 86
KoreanEndings == {"uB2E4", "uC694", "uC8E0", "uB124", "uAE4C"}

\* str.strip()
Strip(t) == LStrip(RStrip(t))

\* KOREAN_SENTENCE_ENDINGS.search(t): a punctuation mark or a Korean ending
\* that is followed by whitespace or ends the text
SearchSentenceEnding(t) ==
    \E i \in 1..Len(t) :
        /\ t[i] \in SentencePunct \cup KoreanEndings
        /\ i = Len(t) \/ t[i + 1] = Space

\* _is_sentence_end, lines 304-325
IsSentenceEnd(text) ==
    LET t == Strip(text)
    IN  /\ t # <<>>
        /\ \/ t[Len(t)] \in SentencePunct
           \/ SearchSentenceEnding(IF Len(t) > 1 THEN SubSeq(t, Len(t) - 1, Len(t)) ELSE t)

\* " ".join(texts)
RECURSIVE JoinSpace(_)
JoinSpace(texts) ==
    IF texts = <<>> THEN <<>>
    ELSE IF Len(texts) = 1 THEN texts[1]
    ELSE texts[1] \o <<Space>> \o JoinSpace(Tail(texts))

\* lines 174-177
SameSpeaker(current, next_seg) ==
    /\ current.speaker_id = next_seg.speaker_id
    /\ current.speaker_label = next_seg.speaker_label

\* the merge condition of lines 179-185
ShouldMergeShort_AnyDuration(current, next_seg, cfg) ==
    /\ SameSpeaker(current, next_seg)
    /\ next_seg.end_time - current.start_time <= cfg.max

ShouldMergeShort(current, next_seg, cfg) ==
    /\ SameSpeaker(current, next_seg)
    /\ current.end_time - current.start_time < cfg.min
    /\ next_seg.end_time - current.start_time <= cfg.max

\* `confidence or 1.0`, lines 196-197
ConfidenceOrOne(c) == IF c = NoConf \/ c[1] = 0 THEN 100 ELSE c[1]

\* the merged segment of lines 188-199
MergedShort(current, next_seg) ==
    [meeting_id |-> current.meeting_id,
     start_time |-> current.start_time,
     end_time |-> next_seg.end_time,
     speaker_id |-> current.speaker_id,
     speaker_label |-> current.speaker_label,
     text |-> Strip(current.text \o <<Space>> \o next_seg.text),
     confidence |-> <<Min2(ConfidenceOrOne(current.confidence),
                           ConfidenceOrOne(next_seg.confidence))>>]

\* the empty accumulator of lines 225-229
EmptyAcc ==
    [texts |-> <<>>, start |-> <<>>, end |-> 0, speaker_id |-> None,
     speaker_label |-> None]

\* lines 233-237
SpeakerChanged(acc, segment, cfg) ==
    /\ cfg.respect_speaker_changes
    /\ acc.speaker_id # None
    /\ segment.speaker_id # acc.speaker_id

\* lines 240-245
WouldExceedMax(acc, segment, cfg) ==
    /\ acc.start # <<>>
    /\ segment.end_time - acc.start[1] > cfg.max

\* lines 248-249
ReachedTarget(acc, cfg) ==
    acc.end - (IF acc.start = <<>> THEN 0 ELSE acc.start[1]) >= cfg.target

\* ShouldFinalize without the sentence-boundary test of line 255
ShouldFinalize_IgnoresSentenceEnd(acc, segment, cfg) ==
    /\ acc.texts # <<>>
    /\ \/ SpeakerChanged(acc, segment, cfg)
       \/ WouldExceedMax(acc, segment, cfg)
       \/ ReachedTarget(acc, cfg)

\* lines 252-256
ShouldFinalize(acc, segment, cfg) ==
    /\ acc.texts # <<>>
    /\ \/ SpeakerChanged(acc, segment, cfg)
       \/ WouldExceedMax(acc, segment, cfg)
       \/ ReachedTarget(acc, cfg) /\ IsSentenceEnd(acc.texts[Len(acc.texts)])

\* the TranscriptChunk of lines 260-269 and 290-299
MakeChunk(acc, chunk_index, meeting_id) ==
    [chunk_index |-> chunk_index,
     meeting_id |-> meeting_id,
     start_time |-> acc.start[1],
     end_time |-> acc.end,
     text |-> JoinSpace(acc.texts),
     speaker_id |-> acc.speaker_id,
     speaker_label |-> acc.speaker_label]

\* lines 279-286: the segment joins the accumulator
Accumulate(acc, segment) ==
    [texts |-> Append(acc.texts, segment.text),
     start |-> IF acc.start = <<>> THEN <<segment.start_time>> ELSE acc.start,
     end |-> segment.end_time,
     speaker_id |-> IF acc.start = <<>> THEN segment.speaker_id ELSE acc.speaker_id,
     speaker_label |-> IF acc.start = <<>> THEN segment.speaker_label
                       ELSE acc.speaker_label]

\* chunk_transcript is called, lines 111-119, into _merge_short_segments up to
\* its loop (lines 166-170)
ChunkTranscript ==
    /\ kPc = "idle"
    /\ IF kSegments = <<>>
       THEN /\ kPc' = "done"
            /\ UNCHANGED <<kIdx, kCurrent, kMerged>>
       ELSE IF Len(kSegments) <= 1
       THEN /\ kMerged' = kSegments
            /\ kPc' = "chunks"
            /\ kIdx' = 1
            /\ UNCHANGED kCurrent
       ELSE /\ kCurrent' = kSegments[1]
            /\ kIdx' = 2
            /\ kPc' = "merge"
            /\ UNCHANGED kMerged
    /\ UNCHANGED <<kCfg, kSegments, kAcc, kChunks, kChunkIndex>>
    /\ UNCHANGED othersOfChunk

\* one turn of the loop of _merge_short_segments, lines 172-202
MergeShortStep ==
    /\ kPc = "merge"
    /\ kIdx <= Len(kSegments)
    /\ LET next_seg == kSegments[kIdx]
       IN  IF ShouldMergeShort(kCurrent, next_seg, kCfg)
           THEN /\ kCurrent' = MergedShort(kCurrent, next_seg)
                /\ UNCHANGED kMerged
           ELSE /\ kMerged' = Append(kMerged, kCurrent)
                /\ kCurrent' = next_seg
    /\ kIdx' = kIdx + 1
    /\ UNCHANGED <<kCfg, kSegments, kPc, kAcc, kChunks, kChunkIndex>>
    /\ UNCHANGED othersOfChunk

\* lines 204-205 and the entry of _create_chunks, lines 221-229
MergeShortEnd ==
    /\ kPc = "merge"
    /\ kIdx > Len(kSegments)
    /\ kMerged' = Append(kMerged, kCurrent)
    /\ kPc' = "chunks"
    /\ kIdx' = 1
    /\ UNCHANGED <<kCfg, kSegments, kCurrent, kAcc, kChunks, kChunkIndex>>
    /\ UNCHANGED othersOfChunk

\* chunk_index += 1, line 271
NextChunkIndex_Skips(chunk_index) == chunk_index + 2

NextChunkIndex(chunk_index) == chunk_index + 1

\* one turn of the loop of _create_chunks, lines 231-286
CreateChunksStep ==
    /\ kPc = "chunks"
    /\ kIdx <= Len(kMerged)
    /\ LET segment == kMerged[kIdx]
       IN  IF ShouldFinalize(kAcc, segment, kCfg)
           THEN /\ kChunks' = Append(kChunks,
                        MakeChunk(kAcc, kChunkIndex, segment.meeting_id))
                /\ kChunkIndex' = NextChunkIndex(kChunkIndex)
                /\ kAcc' = Accumulate([EmptyAcc EXCEPT !.end = kAcc.end], segment)
           ELSE /\ kAcc' = Accumulate(kAcc, segment)
                /\ UNCHANGED <<kChunks, kChunkIndex>>
    /\ kIdx' = kIdx + 1
    /\ UNCHANGED <<kCfg, kSegments, kPc, kCurrent, kMerged>>
    /\ UNCHANGED othersOfChunk

\* the last chunk and the return, lines 288-302
CreateChunksEnd_NoFlush ==
    /\ kPc = "chunks"
    /\ kIdx > Len(kMerged)
    /\ kPc' = "done"
    /\ UNCHANGED <<kCfg, kSegments, kIdx, kCurrent, kMerged, kAcc, kChunks, kChunkIndex>>
    /\ UNCHANGED othersOfChunk

CreateChunksEnd ==
    /\ kPc = "chunks"
    /\ kIdx > Len(kMerged)
    /\ kChunks' = IF kAcc.texts # <<>> /\ kAcc.start # <<>>
                  THEN Append(kChunks,
                           MakeChunk(kAcc, kChunkIndex, kMerged[1].meeting_id))
                  ELSE kChunks
    /\ kPc' = "done"
    /\ UNCHANGED <<kCfg, kSegments, kIdx, kCurrent, kMerged, kAcc, kChunkIndex>>
    /\ UNCHANGED othersOfChunk

\* ---- inputs of the chunker ----
MaxChunkSegments == 3

ChunkTimes == {0, 2, 8, 12, 20}

\* what a transcript segment carries besides its times
ChunkPayloads ==
    {[text |-> <<"a">>, speaker_id |-> "u1", speaker_label |-> "SPEAKER_00", confidence |-> NoConf],
     [text |-> <<"b", ".">>, speaker_id |-> "u1", speaker_label |-> "SPEAKER_00", confidence |-> <<90>>],
     [text |-> <<"c", "uC694">>, speaker_id |-> "u2", speaker_label |-> "SPEAKER_01", confidence |-> <<0>>],
     [text |-> <<"d", " ">>, speaker_id |-> None, speaker_label |-> "SPEAKER_00", confidence |-> NoConf],
     [text |-> <<"e", "!">>, speaker_id |-> None, speaker_label |-> "SPEAKER_01", confidence |-> <<50>>],
     [text |-> <<>>, speaker_id |-> None, speaker_label |-> None, confidence |-> NoConf]}

ChunkSegmentSet ==
    {sg \in {[meeting_id |-> "m1", start_time |-> a, end_time |-> b, speaker_id |-> p.speaker_id,
      speaker_label |-> p.speaker_label, text |-> p.text, confidence |-> p.confidence] :
        a \in ChunkTimes, b \in ChunkTimes, p \in ChunkPayloads} :
        sg.start_time < sg.end_time}

\* transcripts in start order (the Transcript model sorts, models.py 85-93)
\* whose segments do not overlap
RECURSIVE ChunkSegmentLists(_)
ChunkSegmentLists(n) ==
    IF n = 0 THEN {<<>>}
    ELSE LET shorter == ChunkSegmentLists(n - 1)
         IN  shorter \cup
             {l \in {Append(x, sg) : x \in {y \in shorter : Len(y) = n - 1},
                                     sg \in ChunkSegmentSet} :
                 n = 1 \/ l[n - 1].end_time <= l[n].start_time}

ChunkConfigs ==
    {[min |-> DefaultMinChunkDuration, target |-> DefaultTargetChunkDuration,
      max |-> DefaultMaxChunkDuration, respect_speaker_changes |-> r] : r \in BOOLEAN}

(***************************************************************************)
(* STT pipeline: STTPipeline.process_audio (stt_pipeline.py 124-284) as    *)
(* awaited by PCWorker.process_meeting.  An action is the return (or the   *)
(* raise) of the collaborator call being awaited, together with the code   *)
(* that follows it up to the next await, the start of the next call        *)
(* included.                                                               *)
(***************************************************************************)
PipelineMeeting == "m1"

\* stage 1 calls _preprocess_audio only under this condition (line 165)
Preprocesses(opts) == opts.enable_preprocessing \/ opts.enhance_audio

\* the call that follows the return of the call of `stage` (lines 165-218)
NextStage_AlignBeforeDiarize(stage) ==
    CASE stage = "preprocess" -> "metadata"
      [] stage = "metadata" -> "transcribe"
      [] stage = "transcribe" -> "align"
      [] stage = "align" -> "diarize"
      [] stage = "diarize" -> "embed"

NextStage(stage) ==
    CASE stage = "preprocess" -> "metadata"
      [] stage = "metadata" -> "transcribe"
      [] stage = "transcribe" -> "diarize"
      [] stage = "diarize" -> "align"
      [] stage = "align" -> "embed"

\* what the collaborator of a stage raises when it fails: audio_processor.py
\* 222 and 330, whisperx_engine.py 213, speaker_diarization.py 171, 272, 388
StageError(stage) ==
    CASE stage = "preprocess" -> "AudioPreprocessingError"
      [] stage = "metadata" -> "AudioCorruptedError"
      [] stage = "transcribe" -> "TranscriptionError"
      [] stage \in {"diarize", "align", "embed"} -> "DiarizationError"

\* diarization.labels(): the labels of the tracks, sorted, each once
PipelineLabelOrder == <<"S1", "S2">>

DiarizationLabels(diar) ==
    SelectSeq(PipelineLabelOrder, LAMBDA l : \E i \in 1..Len(diar) : diar[i].label = l)

\* the validator of Transcript.segments (models.py 85-93): a list that is out of
\* start order is sorted by start time (stable), any other list is kept
RECURSIVE InsertByStart(_, _)
InsertByStart(sorted, g) ==
    IF sorted = <<>> THEN <<g>>
    ELSE IF Head(sorted).start_time <= g.start_time
         THEN <<Head(sorted)>> \o InsertByStart(Tail(sorted), g)
         ELSE <<g>> \o sorted

RECURSIVE SortedByStart(_)
SortedByStart(segs) ==
    IF segs = <<>> THEN <<>>
    ELSE InsertByStart(SortedByStart(SubSeq(segs, 1, Len(segs) - 1)), segs[Len(segs)])

ValidateSegmentsSorted(segs) ==
    IF \E i \in 1..(Len(segs) - 1) : segs[i].start_time > segs[i + 1].start_time
    THEN SortedByStart(segs)
    ELSE segs

\* _create_speaker_objects (lines 345-367): one Speaker per label of the
\* diarization, with the label's embedding when the dictionary has one
EmbeddingOf(speaker_embeddings, label) ==
    LET hits == SelectSeq(speaker_embeddings, LAMBDA e : e.label = label)
    IN  IF hits = <<>> THEN <<>> ELSE <<hits[1].embedding>>

CreateSpeakerObjects(diar, speaker_embeddings, meeting_id) ==
    LET labels == DiarizationLabels(diar)
    IN  [i \in 1..Len(labels) |->
            [id |-> labels[i], name |-> None, user_id |-> None,
             embedding |-> EmbeddingOf(speaker_embeddings, labels[i]),
             meeting_ids |-> <<meeting_id>>]]

\* stage 6 and the construction of the result (lines 230-265)
MakePipelineResult(aligned, diar, speaker_embeddings, meeting_id) ==
    [meeting_id |-> meeting_id,
     transcript |-> [meeting_id |-> meeting_id,
                     segments |-> ValidateSegmentsSorted(aligned)],
     speakers |-> CreateSpeakerObjects(diar, speaker_embeddings, meeting_id),
     speaker_embeddings |-> speaker_embeddings,
     num_speakers_detected |-> Len(DiarizationLabels(diar))]

\* ---- what the collaborators of a run may return ----
PipelineSegment(s, e, t) ==
    [meeting_id |-> PipelineMeeting, start_time |-> s, end_time |-> e, text |-> t,
     confidence |-> NoConf, speaker_label |-> None, speaker_id |-> None]

PipelineTranscripts ==
    {<<>>, <<PipelineSegment(0, 4, "x")>>,
     <<PipelineSegment(0, 4, "x"), PipelineSegment(6, 10, "y")>>}

PipelineTrack(s, e, l) == [start |-> s, end |-> e, label |-> l]

PipelineDiarizations ==
    {<<>>, <<PipelineTrack(0, 6, "S1")>>,
     <<PipelineTrack(0, 6, "S2"), PipelineTrack(4, 10, "S1")>>}

\* extract_speaker_embeddings returns a vector for the labels that had a usable
\* stretch of audio (speaker_diarization.py 328-371)
RECURSIVE ExtractedEmbeddings(_)
ExtractedEmbeddings(labels) ==
    IF labels = <<>> THEN {<<>>}
    ELSE {hd \o tl :
            hd \in {<<>>, <<[label |-> Head(labels),
                             embedding |-> UnitVector(1, EmbeddingDim)]>>},
            tl \in ExtractedEmbeddings(Tail(labels))}

\* ---- actions ----
PaKeep(left) == UNCHANGED left /\ UNCHANGED othersOfPipeline

\* entry of process_audio up to the first await of the try block (lines 149-175)
PaStart ==
    /\ paPc = "start"
    /\ paPc' = IF Preprocesses(paOpts) THEN "preprocess" ELSE "metadata"
    /\ paStages' = Append(paStages, paPc')
    /\ PaKeep(<<paOpts, paRunning, paSegments, paDiarization, paAligned, paResult,
                paError, paFailed>>)

\* _preprocess_audio returned (lines 166-170): _get_audio_metadata is awaited
PaPreprocessed ==
    /\ paPc = "preprocess"
    /\ paPc' = NextStage(paPc)
    /\ paStages' = Append(paStages, paPc')
    /\ PaKeep(<<paOpts, paRunning, paSegments, paDiarization, paAligned, paResult,
                paError, paFailed>>)

\* _get_audio_metadata returned (line 173): transcribe is awaited (lines 176-181)
PaMetadataLoaded ==
    /\ paPc = "metadata"
    /\ paPc' = NextStage(paPc)
    /\ paStages' = Append(paStages, paPc')
    /\ PaKeep(<<paOpts, paRunning, paSegments, paDiarization, paAligned, paResult,
                paError, paFailed>>)

\* transcribe returned (lines 176-188): diarize is awaited (lines 191-198)
PaTranscribed ==
    /\ paPc = "transcribe"
    /\ \E segs \in PipelineTranscripts : paSegments' = segs
    /\ paPc' = NextStage(paPc)
    /\ paStages' = Append(paStages, paPc')
    /\ PaKeep(<<paOpts, paRunning, paDiarization, paAligned, paResult, paError,
                paFailed>>)

\* diarize returned (lines 191-206): align_with_transcript is awaited (208-212)
PaDiarized ==
    /\ paPc = "diarize"
    /\ \E diar \in PipelineDiarizations : paDiarization' = diar
    /\ paPc' = NextStage(paPc)
    /\ paStages' = Append(paStages, paPc')
    /\ PaKeep(<<paOpts, paRunning, paSegments, paAligned, paResult, paError,
                paFailed>>)

\* align_with_transcript returned (lines 208-213): extract_speaker_embeddings
\* is awaited inside its own try (lines 216-222)
PaAligned ==
    /\ paPc = "align"
    /\ paAligned' = AlignWithTranscript(paDiarization, paSegments)
    /\ paPc' = NextStage(paPc)
    /\ paStages' = Append(paStages, paPc')
    /\ PaKeep(<<paOpts, paRunning, paSegments, paDiarization, paResult, paError,
                paFailed>>)

\* extract_speaker_embeddings returned: stage 6, the result, return (230-276)
PaEmbeddingsExtracted ==
    /\ paPc = "embed"
    /\ \E emb \in ExtractedEmbeddings(DiarizationLabels(paDiarization)) :
          paResult' = <<MakePipelineResult(paAligned, paDiarization, emb,
                                           PipelineMeeting)>>
    /\ paPc' = "returned"
    /\ paStages' = Append(paStages, "finished")
    /\ PaKeep(<<paOpts, paRunning, paSegments, paDiarization, paAligned, paError,
                paFailed>>)

\* extract_speaker_embeddings raised: `except Exception` (lines 223-227) keeps
\* the empty dictionary of line 216 and the run goes on as above
PaEmbeddingsRaised_Propagates ==
    /\ paPc = "embed"
    /\ paFailed' = paFailed \cup {paPc}
    /\ paError' = StageError(paPc)
    /\ paPc' = "raised"
    /\ PaKeep(<<paOpts, paRunning, paSegments, paDiarization, paAligned, paResult,
                paStages>>)

PaEmbeddingsRaised ==
    /\ paPc = "embed"
    /\ paFailed' = paFailed \cup {paPc}
    /\ paResult' = <<MakePipelineResult(paAligned, paDiarization, <<>>,
                                        PipelineMeeting)>>
    /\ paPc' = "returned"
    /\ paStages' = Append(paStages, "finished")
    /\ PaKeep(<<paOpts, paRunning, paSegments, paDiarization, paAligned, paError>>)

\* the call of any other stage raised: the outer `except Exception` logs and
\* re-raises (lines 278-284), process_audio is left with the exception
PaStageRaised_Swallowed ==
    /\ paPc \in {"preprocess", "metadata", "transcribe", "diarize", "align"}
    /\ paFailed' = paFailed \cup {paPc}
    /\ paPc' = NextStage(paPc)
    /\ paStages' = Append(paStages, paPc')
    /\ PaKeep(<<paOpts, paRunning, paSegments, paDiarization, paAligned, paResult,
                paError>>)

PaStageRaised ==
    /\ paPc \in {"preprocess", "metadata", "transcribe", "diarize", "align"}
    /\ paFailed' = paFailed \cup {paPc}
    /\ paError' = StageError(paPc)
    /\ paPc' = "raised"
    /\ PaKeep(<<paOpts, paRunning, paSegments, paDiarization, paAligned, paResult,
                paStages>>)

\* SIGINT or SIGTERM arrives during the run: _signal_handler clears the
\* worker's flag (main_worker.py 349-352); nothing in process_audio reads it
PaSignalHandler ==
    /\ paRunning
    /\ paPc \notin {"returned", "raised"}
    /\ paRunning' = FALSE
    /\ PaKeep(<<paOpts, paPc, paSegments, paDiarization, paAligned, paResult,
                paError, paStages, paFailed>>)

(***************************************************************************)
(* Meeting runs: PCWorker.process_meeting (main_worker.py 386-673) and     *)
(* _handle_processing_error (746-789) for the meetings one worker is asked *)
(* to process, possibly at the same time (asyncio.gather).  An action is   *)
(* the return or the raise of the call a run awaits.  Steps 2 to 9 touch   *)
(* neither the status nor the counter and are one step, "work".            *)
(***************************************************************************)
RunMeetings == {"m1", "m2"}

\* the awaited calls of the try block that matter to the status, in order:
\* lines 415, 421-616 (steps 2 to 9), 621 and 628
RunSteps == <<"set_processing", "work", "set_completed", "notify_completed">>

StepIndex(step) == CHOOSE i \in 1..Len(RunSteps) : RunSteps[i] = step

\* what the update_meeting_status call of a step writes, lines 415-419, 621-625
StatusAfter(step, status) ==
    CASE step = "set_processing" -> "processing"
      [] step = "set_completed" -> "completed"
      [] OTHER -> status

\* process_meeting is left: finally (lines 666-673)
RunExit(m, failed) ==
    /\ rJobs' = AfterFinally(rJobs, failed)
    /\ rPc' = [rPc EXCEPT ![m] = "done"]

\* entry of process_meeting up to its first await, lines 405-419
RunEnter(m) ==
    /\ rPc[m] = "idle"
    /\ rJobs' = rJobs + 1
    /\ rPc' = [rPc EXCEPT ![m] = RunSteps[1]]
    /\ UNCHANGED <<rStatus, rFailedAt, rHandlerFault>>
    /\ UNCHANGED othersOfRun

\* the awaited call of a step returns; after the last one the run ends
RunStepReturns(m) ==
    /\ rPc[m] \in Range(RunSteps)
    /\ rStatus' = [rStatus EXCEPT ![m] = StatusAfter(rPc[m], @)]
    /\ IF StepIndex(rPc[m]) < Len(RunSteps)
       THEN /\ rPc' = [rPc EXCEPT ![m] = RunSteps[StepIndex(rPc[m]) + 1]]
            /\ UNCHANGED rJobs
       ELSE RunExit(m, FALSE)
    /\ UNCHANGED <<rFailedAt, rHandlerFault>>
    /\ UNCHANGED othersOfRun

\* the awaited call of a step raises (or step 2 finds no meeting, line 423):
\* one of the except clauses of lines 654-665 calls _handle_processing_error,
\* which awaits get_meeting_by_id (line 768)
RunStepRaises(m) ==
    /\ rPc[m] \in Range(RunSteps)
    /\ rPc' = [rPc EXCEPT ![m] = "h_get"]
    /\ rFailedAt' = [rFailedAt EXCEPT ![m] = rPc[m]]
    /\ UNCHANGED <<rStatus, rJobs, rHandlerFault>>
    /\ UNCHANGED othersOfRun

\* get_meeting_by_id of the handler returns: update_meeting_status(FAILED) is
\* awaited (lines 768-776)
HandlerGetReturns(m) ==
    /\ rPc[m] = "h_get"
    /\ rPc' = [rPc EXCEPT ![m] = "h_update"]
    /\ UNCHANGED <<rStatus, rJobs, rFailedAt, rHandlerFault>>
    /\ UNCHANGED othersOfRun

\* update_meeting_status(FAILED) returns (lines 771-784): with a user the
\* notification is awaited, without one the handler and the run end
HandlerUpdateReturns(m) ==
    /\ rPc[m] = "h_update"
    /\ rStatus' = [rStatus EXCEPT ![m] = "failed"]
    /\ \E has_user \in BOOLEAN :
          IF has_user
          THEN rPc' = [rPc EXCEPT ![m] = "h_notify"] /\ UNCHANGED rJobs
          ELSE RunExit(m, TRUE)
    /\ UNCHANGED <<rFailedAt, rHandlerFault>>
    /\ UNCHANGED othersOfRun

\* notify_processing_failed returns or raises (lines 779-789): the run ends
HandlerNotifyEnds(m) ==
    /\ rPc[m] = "h_notify"
    /\ RunExit(m, TRUE)
    /\ UNCHANGED <<rStatus, rFailedAt, rHandlerFault>>
    /\ UNCHANGED othersOfRun

\* get_meeting_by_id or update_meeting_status of the handler raises: the
\* except of lines 785-789 logs it, the status is not written, the run ends
HandlerRaises(m) ==
    /\ rPc[m] \in {"h_get", "h_update"}
    /\ rHandlerFault' = [rHandlerFault EXCEPT ![m] = TRUE]
    /\ RunExit(m, TRUE)
    /\ UNCHANGED <<rStatus, rFailedAt>>
    /\ UNCHANGED othersOfRun

(***************************************************************************)
(* SpeakerMatcher.calculate_similarity (speaker_matcher.py 348-383).       *)
(* Vectors have integer components and are drawn so that their norm is an  *)
(* integer: dot product, norms and quotient are then exact.                *)
(***************************************************************************)
SimMaxAbs == 4

SimMaxLen == 2

RECURSIVE SumOfProducts(_, _)
SumOfProducts(a, b) ==
    IF a = <<>> THEN 0 ELSE Head(a) * Head(b) + SumOfProducts(Tail(a), Tail(b))

\* is n a perfect square, and its root
IsSquare(n) == \E k \in 0..n : k * k = n

Root(n) == CHOOSE k \in 0..n : k * k = n

\* np.linalg.norm, lines 370-371
Norm(v) == Root(SumOfProducts(v, v))

\* max(0.0, min(1.0, similarity)), line 379
Clamp01(x) ==
    IF RatLeq(x, RatZero) THEN RatZero
    ELSE IF RatLeq(RatOne, x) THEN RatOne ELSE x

\* lines 363-383; np.dot raises on vectors of different lengths and the
\* except clause returns 0.0
CalculateSimilarity_Unclamped(a, b) ==
    IF Len(a) # Len(b) THEN RatZero
    ELSE IF Norm(a) = 0 \/ Norm(b) = 0 THEN RatZero
    ELSE Rat(SumOfProducts(a, b), Norm(a) * Norm(b))

CalculateSimilarity(a, b) ==
    IF Len(a) # Len(b) THEN RatZero
    ELSE IF Norm(a) = 0 \/ Norm(b) = 0 THEN RatZero
    ELSE Clamp01(Rat(SumOfProducts(a, b), Norm(a) * Norm(b)))

\* the vectors of length 1..SimMaxLen with components in -SimMaxAbs..SimMaxAbs
\* and an integer norm
SimVectors ==
    {v \in UNION {[1..n -> (0 - SimMaxAbs)..SimMaxAbs] : n \in 1..SimMaxLen} :
        IsSquare(SumOfProducts(v, v))}

\* one call
SimCall ==
    /\ csPc = "call"
    /\ csOut' = <<CalculateSimilarity(csA, csB)>>
    /\ csPc' = "done"
    /\ UNCHANGED <<csA, csB>>
    /\ UNCHANGED othersOfSimilarity

(***************************************************************************)
(* Conversion of recognition records into TranscriptSegments               *)
(* (models.py, whisperx_engine.py, faster_whisper_engine.py).              *)
(* Times are whole seconds; confidences and scores are hundredths.         *)
(***************************************************************************)

ConvMaxTime == 1
ConvMaxRecords == 2
\* FasterWhisperConfig.confidence_threshold = 0.4, in hundredths
ConfidenceThreshold == 40

\* models.py 61-74: validate_time on both fields, validate_end_after_start
ValidTimes(start_time, end_time) ==
    /\ start_time >= 0
    /\ end_time >= 0
    /\ end_time >= start_time

RECURSIVE SumSeq(_)
SumSeq(s) == IF s = <<>> THEN 0 ELSE Head(s) + SumSeq(Tail(s))

\* whisperx_engine.py 331-339: the mean of the word scores, None without words
WordConfidence(rec) ==
    IF rec.words = <<>> THEN NoConf ELSE <<SumSeq(rec.words) \div Len(rec.words)>>

\* faster_whisper_engine.py 141-144: avg_logprob mapped into [0, 1]
LogprobConfidence(rec) ==
    IF rec.confidence = NoConf THEN NoConf
    ELSE <<Max2(0, Min2(100, 100 + rec.confidence[1]))>>

ConvertedConfidence(engine, rec) ==
    IF engine = "whisperx" THEN WordConfidence(rec) ELSE LogprobConfidence(rec)

\* faster_whisper_engine.py 146: records under the threshold are left out;
\* _convert_to_segments of whisperx_engine.py keeps every record
PassesThreshold(engine, rec) ==
    IF engine = "whisperx" \/ LogprobConfidence(rec) = NoConf
    THEN TRUE
    ELSE LogprobConfidence(rec)[1] >= ConfidenceThreshold

\* the TranscriptSegment of whisperx_engine.py 341-349 and
\* faster_whisper_engine.py 147-155
ConvertedSegment(engine, rec) ==
    [start_time |-> rec.start,
     end_time |-> rec.end,
     confidence |-> ConvertedConfidence(engine, rec),
     speaker_id |-> None,
     speaker_label |-> None]

ConvTimes == (0 - 1) .. ConvMaxTime

\* raw records: whisperx carries word scores, faster-whisper an avg_logprob
RawRecords(engine) ==
    IF engine = "whisperx"
    THEN [start : ConvTimes, end : ConvTimes, words : {<<>>, <<20, 60>>},
          confidence : {NoConf}]
    ELSE [start : ConvTimes, end : ConvTimes, words : {<<>>},
          confidence : {NoConf, <<0 - 90>>, <<0 - 10>>}]

\* one turn of the conversion loop on a record the model accepts
ConvertRecord ==
    /\ cvPc = "loop"
    /\ cvIdx <= Len(cvRecords)
    /\ PassesThreshold(cvEngine, cvRecords[cvIdx])
    /\ ValidTimes(cvRecords[cvIdx].start, cvRecords[cvIdx].end)
    /\ cvOut' = Append(cvOut, ConvertedSegment(cvEngine, cvRecords[cvIdx]))
    /\ cvIdx' = cvIdx + 1
    /\ UNCHANGED <<cvEngine, cvRecords, cvPc>>
    /\ UNCHANGED othersOfConvert

\* faster_whisper_engine.py 146: a record under the threshold is passed over
\* before any TranscriptSegment is built
ConvertRecordFiltered ==
    /\ cvPc = "loop"
    /\ cvIdx <= Len(cvRecords)
    /\ ~PassesThreshold(cvEngine, cvRecords[cvIdx])
    /\ cvIdx' = cvIdx + 1
    /\ UNCHANGED <<cvEngine, cvRecords, cvOut, cvPc>>
    /\ UNCHANGED othersOfConvert

\* the TranscriptSegment constructor raises: whisperx_engine.py 353-355 logs
\* and continues with the next record; in faster_whisper_engine.py the loop is
\* inside the try of transcribe, whose except (166-168) raises
\* TranscriptionError
ConvertRecordRejected ==
    /\ cvPc = "loop"
    /\ cvIdx <= Len(cvRecords)
    /\ PassesThreshold(cvEngine, cvRecords[cvIdx])
    /\ ~ValidTimes(cvRecords[cvIdx].start, cvRecords[cvIdx].end)
    /\ IF cvEngine = "whisperx"
       THEN /\ cvIdx' = cvIdx + 1
            /\ UNCHANGED <<cvOut, cvPc>>
       ELSE /\ cvPc' = "raised"
            /\ cvOut' = <<>>
            /\ UNCHANGED cvIdx
    /\ UNCHANGED <<cvEngine, cvRecords>>
    /\ UNCHANGED othersOfConvert

\* whisperx_engine.py 357, faster_whisper_engine.py 164
ConvertReturns ==
    /\ cvPc = "loop"
    /\ cvIdx > Len(cvRecords)
    /\ cvPc' = "returned"
    /\ UNCHANGED <<cvEngine, cvRecords, cvIdx, cvOut>>
    /\ UNCHANGED othersOfConvert

(***************************************************************************)
(* retry_with_backoff (utils.py 242-282): one call of the wrapper.         *)
(***************************************************************************)

MaxAttemptsLimit == 3
MaxInitialDelay == 2

\* the decorator's default backoff_factor (line 245)
BackoffFactor == 2

\* exception classes the wrapped function raises in the model
RaisedKinds == {"SupabaseQueryError", "ValueError", "CancelledError"}

\* except exceptions as e (line 272): isinstance against the tuple; the
\* tuple is (Exception,) or (SupabaseQueryError,), and CancelledError is a
\* BaseException
Caught(kind, exceptions) ==
    \/ exceptions = "Exception" /\ kind # "CancelledError"
    \/ exceptions = kind

Results == {"r1", "r2"}

RetryConfigs ==
    [max_attempts : 0 .. MaxAttemptsLimit,
     initial_delay : 1 .. MaxInitialDelay,
     backoff_factor : {BackoffFactor},
     exceptions : {"Exception", "SupabaseQueryError"}]

\* lines 269-271: an attempt returns; the wrapper returns its value
RetryAttemptReturns ==
    /\ rbPc = "call"
    /\ rbAttempt < rbCfg.max_attempts
    /\ \E v \in Results :
          /\ rbHistory' = Append(rbHistory, [ok |-> TRUE, value |-> v])
          /\ rbOutcome' = <<[ok |-> TRUE, value |-> v]>>
    /\ rbPc' = "returned"
    /\ UNCHANGED <<rbCfg, rbAttempt, rbDelay, rbSlept>>
    /\ UNCHANGED othersOfRetry

\* lines 272-279: an attempt raises; an exception outside the tuple
\* propagates, one of the last attempt is re-raised, any other is followed by
\* a sleep
RetryAttemptRaises ==
    /\ rbPc = "call"
    /\ rbAttempt < rbCfg.max_attempts
    /\ \E kind \in RaisedKinds :
          LET e == [ok |-> FALSE, value |-> <<kind, rbAttempt>>]
          IN  /\ rbHistory' = Append(rbHistory, e)
              /\ IF Caught(kind, rbCfg.exceptions) /\ rbAttempt < rbCfg.max_attempts - 1
                 THEN /\ rbPc' = "sleep"
                      /\ UNCHANGED rbOutcome
                 ELSE /\ rbPc' = "raised"
                      /\ rbOutcome' = <<e>>
    /\ UNCHANGED <<rbCfg, rbAttempt, rbDelay, rbSlept>>
    /\ UNCHANGED othersOfRetry

\* RetrySleepEnds without the advance of the loop variable
RetrySleepEnds_KeepsAttempt ==
    /\ rbPc = "sleep"
    /\ rbSlept' = Append(rbSlept, rbDelay)
    /\ rbDelay' = rbDelay * rbCfg.backoff_factor
    /\ rbPc' = "call"
    /\ UNCHANGED <<rbCfg, rbAttempt, rbHistory, rbOutcome>>
    /\ UNCHANGED othersOfRetry

\* lines 275-276 and the next turn of the for loop of line 269
RetrySleepEnds ==
    /\ rbPc = "sleep"
    /\ rbSlept' = Append(rbSlept, rbDelay)
    /\ rbDelay' = rbDelay * rbCfg.backoff_factor
    /\ rbAttempt' = rbAttempt + 1
    /\ rbPc' = "call"
    /\ UNCHANGED <<rbCfg, rbHistory, rbOutcome>>
    /\ UNCHANGED othersOfRetry

\* line 282: the loop ended without an attempt (max_attempts = 0), and
\* raise last_exception with last_exception = None raises TypeError
RetryLoopExhausted ==
    /\ rbPc = "call"
    /\ rbAttempt >= rbCfg.max_attempts
    /\ rbPc' = "raised"
    /\ rbOutcome' = <<[ok |-> FALSE, value |-> <<"TypeError", rbAttempt>>]>>
    /\ UNCHANGED <<rbCfg, rbAttempt, rbDelay, rbHistory, rbSlept>>
    /\ UNCHANGED othersOfRetry

(***************************************************************************)
(* _apply_template_tags (main_worker.py 675-744), called twice in a row on *)
(* the same meeting.                                                       *)
(***************************************************************************)

MaxTagCalls == 2

TagLists == {<<>>, <<"a">>, <<"a", "b">>}

\* SupabaseClient (supabase_client.py 36-705) defines no update_meeting_tags
SupabaseClientMethods ==
    {"get_pending_meetings", "get_meeting_by_id", "update_meeting_status",
     "get_meeting_audio_url", "get_storage_signed_url", "download_audio_file",
     "save_transcript", "save_speakers", "save_summary", "list_templates",
     "get_template_by_id", "create_template", "update_template",
     "delete_template", "health_check"}

\* the except clause of lines 742-744 ends the call
TagCallEnds(exception) ==
    /\ tgPc' = "idle"
    /\ tgCalls' = tgCalls + 1
    /\ tgSwallowed' = tgSwallowed \o exception
    /\ tgRead' = <<>>
    /\ tgFetched' = <<>>

\* main_worker.py 433-434: process_meeting calls _apply_template_tags
TagCallBegins ==
    /\ tgPc = "idle"
    /\ tgCalls < MaxTagCalls
    /\ tgPc' = "get_meeting"
    /\ UNCHANGED <<tgMeeting, tgTemplate, tgRead, tgFetched, tgCalls, tgSwallowed, tgDbFailed>>
    /\ UNCHANGED othersOfTagging

\* lines 691-714: the meeting is fetched; the call returns when it is absent,
\* already has tags, or has no template
TagGetMeetingReturns ==
    /\ tgPc = "get_meeting"
    /\ IF \/ tgMeeting = <<>>
          \/ tgMeeting[1].tags # <<>>
          \/ tgMeeting[1].template_id = None
       THEN /\ TagCallEnds(<<>>)
       ELSE /\ tgPc' = "get_template"
            /\ tgRead' = tgMeeting
            /\ UNCHANGED <<tgFetched, tgCalls, tgSwallowed>>
    /\ UNCHANGED <<tgMeeting, tgTemplate, tgDbFailed>>
    /\ UNCHANGED othersOfTagging

\* get_meeting_by_id or get_template_by_id raises SupabaseQueryError after
\* its retries; lines 742-744 log it
TagReadRaises ==
    /\ tgPc \in {"get_meeting", "get_template"}
    /\ TagCallEnds(<<"SupabaseQueryError">>)
    /\ tgDbFailed' = TRUE
    /\ UNCHANGED <<tgMeeting, tgTemplate>>
    /\ UNCHANGED othersOfTagging

\* lines 716-720 and 730-736: the template is fetched; the call returns when
\* it is absent or has no tags
TagGetTemplateReturns ==
    /\ tgPc = "get_template"
    /\ IF tgTemplate = <<>> \/ tgTemplate[1].tags = <<>>
       THEN /\ TagCallEnds(<<>>)
       ELSE /\ tgPc' = "update_tags"
            /\ tgFetched' = tgTemplate
            /\ UNCHANGED <<tgRead, tgCalls, tgSwallowed>>
    /\ UNCHANGED <<tgMeeting, tgTemplate, tgDbFailed>>
    /\ UNCHANGED othersOfTagging

\* line 724: self.supabase.update_meeting_tags is looked up on the client;
\* the attribute does not exist, AttributeError is raised before any write
\* and lines 742-744 log it
TagUpdateTags ==
    /\ tgPc = "update_tags"
    /\ "update_meeting_tags" \notin SupabaseClientMethods
    /\ TagCallEnds(<<"AttributeError">>)
    /\ UNCHANGED <<tgMeeting, tgTemplate, tgDbFailed>>
    /\ UNCHANGED othersOfTagging

(***************************************************************************)
(* Specifications: one per component; the others stay idle                 *)
(***************************************************************************)
IdleRun ==
    /\ rPc = [m \in RunMeetings |-> "idle"]
    /\ rStatus = [m \in RunMeetings |-> "pending"]
    /\ rJobs = 0
    /\ rFailedAt = [m \in RunMeetings |-> None]
    /\ rHandlerFault = [m \in RunMeetings |-> FALSE]

IdleSimilarity ==
    /\ csA = <<>>
    /\ csB = <<>>
    /\ csPc = "call"
    /\ csOut = <<>>

IdleConvert ==
    /\ cvEngine = None
    /\ cvRecords = <<>>
    /\ cvIdx = 1
    /\ cvOut = <<>>
    /\ cvPc = "returned"

IdleRetry ==
    /\ rbCfg = <<>>
    /\ rbAttempt = 0
    /\ rbDelay = 0
    /\ rbHistory = <<>>
    /\ rbSlept = <<>>
    /\ rbPc = "returned"
    /\ rbOutcome = <<>>

IdleTagging ==
    /\ tgMeeting = <<>>
    /\ tgTemplate = <<>>
    /\ tgPc = "idle"
    /\ tgRead = <<>>
    /\ tgFetched = <<>>
    /\ tgCalls = MaxTagCalls
    /\ tgSwallowed = <<>>
    /\ tgDbFailed = FALSE

IdlePipeline ==
    /\ paOpts = [enable_preprocessing |-> TRUE, enhance_audio |-> TRUE]
    /\ paPc = "start"
    /\ paRunning = TRUE
    /\ paSegments = <<>>
    /\ paDiarization = <<>>
    /\ paAligned = <<>>
    /\ paResult = <<>>
    /\ paError = None
    /\ paStages = <<>>
    /\ paFailed = {}

IdleMerge ==
    /\ mCfg = [gap |-> DefaultMergeGapThreshold, max |-> DefaultMergeMaxDuration]
    /\ mUnits = <<>>
    /\ mPc = "idle"
    /\ mIdx = 1
    /\ mCur = MergeIdleCur
    /\ mOut = <<>>

IdleAlign ==
    /\ aDiar = <<>>
    /\ aSegs = <<>>
    /\ aIn = <<>>
    /\ aCalls = 0

IdleUpdate ==
    /\ uReg = [p \in Profiles |-> NoEmbedding]
    /\ uReg0 = uReg
    /\ uPc = [c \in Callers |-> "idle"]
    /\ uArgs = [c \in Callers |-> [id |-> "ghost", new |-> <<>>, w |-> RatZero]]
    /\ uRead = [c \in Callers |-> NoEmbedding]
    /\ uAttempt = [c \in Callers |-> 1]
    /\ sAttempt = [c \in Callers |-> 1]
    /\ dbFailures = 0

IdleMatch ==
    /\ pmReg = [p \in MatchProfiles |-> NoEmbedding]
    /\ pmReg0 = pmReg
    /\ pmUser = "userA"
    /\ pmEmbeddings = <<>>
    /\ pmSpeakers = <<>>
    /\ pmSegments = FALSE
    /\ pmMatches = <<>>
    /\ pmIdx = 1
    /\ pmAttempt = 1
    /\ pmSaved = FALSE
    /\ pmPc = "step7"

IdleWorker ==
    /\ watchFolder = FALSE
    /\ maxJobs = DefaultMaxConcurrentJobs
    /\ is_running = FALSE
    /\ current_jobs = 0
    /\ mainPc = "init"
    /\ observing = FALSE
    /\ pending_meetings = <<>>
    /\ pollIdx = 1
    /\ meetingStatus = [m \in Range(Meetings) |-> "pending"]
    /\ processing_files = {}
    /\ disk = [f \in Files |-> Absent]
    /\ handler = [f \in Files |-> IdleHandler]

IdleChunk ==
    /\ kCfg = [min |-> DefaultMinChunkDuration, target |-> DefaultTargetChunkDuration,
               max |-> DefaultMaxChunkDuration, respect_speaker_changes |-> TRUE]
    /\ kSegments = <<>>
    /\ kPc = "idle"
    /\ kIdx = 1
    /\ kCurrent = <<>>
    /\ kMerged = <<>>
    /\ kAcc = EmptyAcc
    /\ kChunks = <<>>
    /\ kChunkIndex = 0

InitMerge ==
    /\ mCfg \in MergeConfigs
    /\ mUnits \in OrderedUnitLists(MaxUnits)
    /\ mPc = "idle"
    /\ mIdx = 1
    /\ mCur = MergeIdleCur
    /\ mOut = <<>>
    /\ IdleAlign
    /\ IdleUpdate
    /\ IdleMatch
    /\ IdleWorker
    /\ IdleChunk
    /\ IdlePipeline
    /\ IdleRun
    /\ IdleSimilarity
    /\ IdleConvert
    /\ IdleRetry
    /\ IdleTagging

NextMerge == MergeBegin \/ MergeStep \/ MergeEnd

SpecMerge == InitMerge /\ [][NextMerge]_vars

InitAlign ==
    /\ aDiar \in Timelines(MaxTracks)
    /\ aSegs \in OrderedSegmentLists(MaxSegments)
    /\ aIn = <<>>
    /\ aCalls = 0
    /\ IdleMerge
    /\ IdleUpdate
    /\ IdleMatch
    /\ IdleWorker
    /\ IdleChunk
    /\ IdlePipeline
    /\ IdleRun
    /\ IdleSimilarity
    /\ IdleConvert
    /\ IdleRetry
    /\ IdleTagging

NextAlign == AlignCall

SpecAlign == InitAlign /\ [][NextAlign]_vars

InitUpdate ==
    /\ uReg \in [Profiles -> {NoEmbedding} \cup {FormatVector(v) : v \in EmbeddingVectors}]
    /\ uReg0 = uReg
    /\ uPc = [c \in Callers |-> "idle"]
    /\ uArgs = [c \in Callers |-> [id |-> "ghost", new |-> <<>>, w |-> RatZero]]
    /\ uRead = [c \in Callers |-> NoEmbedding]
    /\ uAttempt = [c \in Callers |-> 1]
    /\ sAttempt = [c \in Callers |-> 1]
    /\ dbFailures = 0
    /\ IdleMerge
    /\ IdleAlign
    /\ IdleMatch
    /\ IdleWorker
    /\ IdleChunk
    /\ IdlePipeline
    /\ IdleRun
    /\ IdleSimilarity
    /\ IdleConvert
    /\ IdleRetry
    /\ IdleTagging

\* calls made one after the other
NextUpdateSeq ==
    \E c \in Callers :
        UpdCallAlone(c) \/ UpdAttempt(c) \/ UpdAttemptDbError(c) \/ UpdSave(c)
            \/ UpdSaveDbError(c)

SpecUpdateSeq == InitUpdate /\ [][NextUpdateSeq]_vars

\* calls made by concurrent runs
NextUpdate ==
    \E c \in Callers :
        UpdCall(c) \/ UpdAttempt(c) \/ UpdAttemptDbError(c) \/ UpdSave(c)
            \/ UpdSaveDbError(c)

SpecUpdate == InitUpdate /\ [][NextUpdate]_vars

InitMatch ==
    /\ pmReg \in Registries
    /\ pmReg0 = pmReg
    /\ pmUser \in MatchUsers
    /\ \E n \in 0..MaxLabels :
          /\ pmSpeakers = SubSeq(SpeakerLabels, 1, n)
          /\ pmEmbeddings \in EmbeddingDicts(n)
    /\ pmSegments \in BOOLEAN
    /\ pmMatches = <<>>
    /\ pmIdx = 1
    /\ pmAttempt = 1
    /\ pmSaved = FALSE
    /\ pmPc = "step7"
    /\ IdleMerge
    /\ IdleAlign
    /\ IdleUpdate
    /\ IdleWorker
    /\ IdleChunk
    /\ IdlePipeline
    /\ IdleRun
    /\ IdleSimilarity
    /\ IdleConvert
    /\ IdleRetry
    /\ IdleTagging

NextMatch ==
    PmStep7 \/ PmFindSimilar \/ PmFindSimilarApiError \/ PmSaveTranscript
        \/ PmSaveTranscriptError \/ PmSaveSpeakers

SpecMatch == InitMatch /\ [][NextMatch]_vars

InitWorker ==
    /\ watchFolder \in BOOLEAN
    /\ maxJobs \in DefaultMaxConcurrentJobs..MaxJobsLimit
    /\ is_running = FALSE
    /\ current_jobs = 0
    /\ mainPc = "init"
    /\ observing = FALSE
    /\ pending_meetings = <<>>
    /\ pollIdx = 1
    /\ meetingStatus \in [Range(Meetings) -> {"pending", "completed"}]
    /\ processing_files = {}
    /\ disk = [f \in Files |-> Absent]
    /\ handler = [f \in Files |-> IdleHandler]
    /\ IdleMerge
    /\ IdleAlign
    /\ IdleUpdate
    /\ IdleMatch
    /\ IdleChunk
    /\ IdlePipeline
    /\ IdleRun
    /\ IdleSimilarity
    /\ IdleConvert
    /\ IdleRetry
    /\ IdleTagging

NextWorker ==
    \/ Start \/ SignalHandler \/ MainLoop \/ PollQuery \/ PollNext
    \/ ProcessMeetingEnd \/ Stop
    \/ \E f \in Files :
          OnCreated(f) \/ FileGrows(f) \/ FileRemoved(f) \/ StableCheck(f)
              \/ StableTimeout(f) \/ ProcessLocalAudioEnd(f)

SpecWorker == InitWorker /\ [][NextWorker]_vars

InitChunk ==
    /\ kCfg \in ChunkConfigs
    /\ kSegments \in ChunkSegmentLists(MaxChunkSegments)
    /\ kPc = "idle"
    /\ kIdx = 1
    /\ kCurrent = <<>>
    /\ kMerged = <<>>
    /\ kAcc = EmptyAcc
    /\ kChunks = <<>>
    /\ kChunkIndex = 0
    /\ IdleMerge
    /\ IdleAlign
    /\ IdleUpdate
    /\ IdleMatch
    /\ IdleWorker
    /\ IdlePipeline
    /\ IdleRun
    /\ IdleSimilarity
    /\ IdleConvert
    /\ IdleRetry
    /\ IdleTagging

NextChunk ==
    ChunkTranscript \/ MergeShortStep \/ MergeShortEnd \/ CreateChunksStep
        \/ CreateChunksEnd

SpecChunk == InitChunk /\ [][NextChunk]_vars

InitPipeline ==
    /\ paOpts \in [enable_preprocessing : BOOLEAN, enhance_audio : BOOLEAN]
    /\ paPc = "start"
    /\ paRunning = TRUE
    /\ paSegments = <<>>
    /\ paDiarization = <<>>
    /\ paAligned = <<>>
    /\ paResult = <<>>
    /\ paError = None
    /\ paStages = <<>>
    /\ paFailed = {}
    /\ IdleMerge
    /\ IdleAlign
    /\ IdleUpdate
    /\ IdleMatch
    /\ IdleWorker
    /\ IdleChunk
    /\ IdleRun
    /\ IdleSimilarity
    /\ IdleConvert
    /\ IdleRetry
    /\ IdleTagging

NextPipeline ==
    PaStart \/ PaPreprocessed \/ PaMetadataLoaded \/ PaTranscribed \/ PaDiarized
        \/ PaAligned \/ PaEmbeddingsExtracted \/ PaEmbeddingsRaised
        \/ PaStageRaised \/ PaSignalHandler

SpecPipeline == InitPipeline /\ [][NextPipeline]_vars

InitRun ==
    /\ rPc = [m \in RunMeetings |-> "idle"]
    /\ rStatus = [m \in RunMeetings |-> "pending"]
    /\ rJobs = 0
    /\ rFailedAt = [m \in RunMeetings |-> None]
    /\ rHandlerFault = [m \in RunMeetings |-> FALSE]
    /\ IdleMerge
    /\ IdleAlign
    /\ IdleUpdate
    /\ IdleMatch
    /\ IdleWorker
    /\ IdleChunk
    /\ IdlePipeline
    /\ IdleSimilarity
    /\ IdleConvert
    /\ IdleRetry
    /\ IdleTagging

NextRun ==
    \E m \in RunMeetings :
        \/ RunEnter(m)
        \/ RunStepReturns(m)
        \/ RunStepRaises(m)
        \/ HandlerGetReturns(m)
        \/ HandlerUpdateReturns(m)
        \/ HandlerNotifyEnds(m)
        \/ HandlerRaises(m)

SpecRun == InitRun /\ [][NextRun]_vars

InitSimilarity ==
    /\ csA \in SimVectors
    /\ csB \in SimVectors
    /\ csPc = "call"
    /\ csOut = <<>>
    /\ IdleMerge
    /\ IdleAlign
    /\ IdleUpdate
    /\ IdleMatch
    /\ IdleWorker
    /\ IdleChunk
    /\ IdlePipeline
    /\ IdleRun
    /\ IdleConvert
    /\ IdleRetry
    /\ IdleTagging

NextSimilarity == SimCall

SpecSimilarity == InitSimilarity /\ [][NextSimilarity]_vars

InitConvert ==
    /\ cvEngine \in {"whisperx", "faster_whisper"}
    /\ cvRecords \in UNION {[1 .. n -> RawRecords(cvEngine)] : n \in 0 .. ConvMaxRecords}
    /\ cvIdx = 1
    /\ cvOut = <<>>
    /\ cvPc = "loop"
    /\ IdleMerge
    /\ IdleAlign
    /\ IdleUpdate
    /\ IdleMatch
    /\ IdleWorker
    /\ IdleChunk
    /\ IdlePipeline
    /\ IdleRun
    /\ IdleSimilarity
    /\ IdleRetry
    /\ IdleTagging

NextConvert ==
    \/ ConvertRecord
    \/ ConvertRecordFiltered
    \/ ConvertRecordRejected
    \/ ConvertReturns

SpecConvert == InitConvert /\ [][NextConvert]_vars

InitRetry ==
    /\ rbCfg \in RetryConfigs
    /\ rbAttempt = 0
    /\ rbDelay = rbCfg.initial_delay
    /\ rbHistory = <<>>
    /\ rbSlept = <<>>
    /\ rbPc = "call"
    /\ rbOutcome = <<>>
    /\ IdleMerge
    /\ IdleAlign
    /\ IdleUpdate
    /\ IdleMatch
    /\ IdleWorker
    /\ IdleChunk
    /\ IdlePipeline
    /\ IdleRun
    /\ IdleSimilarity
    /\ IdleConvert
    /\ IdleTagging

NextRetry ==
    \/ RetryAttemptReturns
    \/ RetryAttemptRaises
    \/ RetrySleepEnds
    \/ RetryLoopExhausted

SpecRetry == InitRetry /\ [][NextRetry]_vars

InitTagging ==
    /\ tgMeeting \in {<<>>} \cup {<<m>> : m \in [tags : TagLists, template_id : {None, "tpl"}]}
    /\ tgTemplate \in {<<>>} \cup {<<t>> : t \in [tags : TagLists]}
    /\ tgPc = "idle"
    /\ tgRead = <<>>
    /\ tgFetched = <<>>
    /\ tgCalls = 0
    /\ tgSwallowed = <<>>
    /\ tgDbFailed = FALSE
    /\ IdleMerge
    /\ IdleAlign
    /\ IdleUpdate
    /\ IdleMatch
    /\ IdleWorker
    /\ IdleChunk
    /\ IdlePipeline
    /\ IdleRun
    /\ IdleSimilarity
    /\ IdleConvert
    /\ IdleRetry

NextTagging ==
    \/ TagCallBegins
    \/ TagGetMeetingReturns
    \/ TagReadRaises
    \/ TagGetTemplateReturns
    \/ TagUpdateTags

SpecTagging == InitTagging /\ [][NextTagging]_vars

(***************************************************************************)
(* Claims about the segment merger                                         *)
(***************************************************************************)
\* one loop iteration has just consumed unit mUnits[mIdx]
MergeIterates == mPc = "loop" /\ mIdx <= Len(mUnits) /\ mIdx' = mIdx + 1

\* the three conditions of the merge rule, read off the accumulated segment and
\* the incoming unit (the text test is on the last character as it stands)
C1_AllThree(acc, unit) ==
    /\ unit.start - acc.end <= mCfg.gap
    /\ unit.end - acc.start <= mCfg.max
    /\ ~(acc.text # <<>> /\ acc.text[Len(acc.text)] \in {".", "?", "!", "u3002", "uFF1F", "uFF01"})

\* C1: an incoming unit is merged into the accumulated segment (same start, the
\* unit's end, nothing emitted) if and only if the gap is within
\* the threshold, the merged span is within the maximum duration and the
\* accumulated text does not end in terminal punctuation; in every other case
\* the accumulated segment is emitted unchanged and the unit starts a new one.
C1_MergeIffAllThree ==
    [][MergeIterates =>
        LET acc == mCur
            unit == mUnits[mIdx]
        IN  IF C1_AllThree(acc, unit)
            THEN /\ mOut' = mOut
                 /\ mCur'.start = acc.start
                 /\ mCur'.end = unit.end
            ELSE /\ mOut' = Append(mOut, acc)
                 /\ mCur'.start = unit.start
                 /\ mCur'.end = unit.end
                 /\ mCur'.text = unit.text]_vars

\* C1 witness: a run in which one unit was merged at a gap equal to the
\* threshold and another unit started a new segment
C1_Witness ==
    /\ mPc = "done"
    /\ Len(mUnits) = 3
    /\ Len(mOut) = 2
    /\ mUnits[2].start - mUnits[1].end = mCfg.gap
    /\ mOut[1].end = mUnits[2].end

C2_Units ==
    <<[start |-> 0, end |-> 10, text |-> <<"A">>],
      [start |-> 10, end |-> 18, text |-> <<"A">>],
      [start |-> 18, end |-> 40, text |-> <<"B">>]>>

C2_Scenario ==
    /\ mCfg = [gap |-> 1, max |-> 60]
    /\ Len(mUnits) = 3
    /\ \A i \in 1..3 : /\ mUnits[i].start = C2_Units[i].start
                        /\ mUnits[i].end = C2_Units[i].end
                        /\ mUnits[i].text = C2_Units[i].text

\* C2 as stated: units (0,5,"A"), (5,9,"A"), (9,20,"B") with gap threshold
\* 0.5 s and maximum 30 s give exactly the two segments (0,9,"A A") and
\* (9,20,"B").
C2_ScenarioTwoSegments ==
    (C2_Scenario /\ mPc = "done") =>
        /\ Len(mOut) = 2
        /\ mOut[1].start = 0 /\ mOut[1].end = 18 /\ mOut[1].text = <<"A", " ", "A">>
        /\ mOut[2].start = 18 /\ mOut[2].end = 40 /\ mOut[2].text = <<"B">>

\* C2 amended: the third unit also passes the merge rule (gap 0 <= 0.5 s, span
\* 20 s <= 30 s, "A A" has no terminal punctuation), so the merger returns the
\* single segment (0,20,"A A B").
C2_ScenarioOneSegment ==
    (C2_Scenario /\ mPc = "done") =>
        /\ Len(mOut) = 1
        /\ mOut[1].start = 0 /\ mOut[1].end = 40
        /\ mOut[1].text = <<"A", " ", "A", " ", "B">>

\* C2 witness: the scenario has been merged to the end
C2_Witness == C2_Scenario /\ mPc = "done" /\ Len(mOut) >= 1

(***************************************************************************)
(* Claims about the alignment engine                                       *)
(***************************************************************************)
C3_Overlap(seg, iv) ==
    LET lo == IF seg.start_time >= iv.start THEN seg.start_time ELSE iv.start
        hi == IF seg.end_time <= iv.end THEN seg.end_time ELSE iv.end
    IN  IF hi - lo > 0 THEN hi - lo ELSE 0

\* the label the claim prescribes: that of the earliest interval among those of
\* greatest overlap, and None when every overlap is zero
C3_Expected(diar, seg) ==
    LET Ov(k) == C3_Overlap(seg, diar[k])
        winners == {k \in 1..Len(diar) :
                       Ov(k) > 0 /\ \A j \in 1..Len(diar) : Ov(j) <= Ov(k)}
    IN  IF winners = {} THEN None
        ELSE diar[CHOOSE k \in winners : \A j \in winners : k <= j].label

C3_ScenarioDiar ==
    <<[start |-> 0, end |-> 6, label |-> "S1"], [start |-> 6, end |-> 20, label |-> "S2"]>>

C4_Idempotent ==
    aCalls >= 2 =>
        /\ Len(aSegs) = Len(aIn)
        /\ \A i \in 1..Len(aIn) : aSegs[i].speaker_label = aIn[i].speaker_label

\* C4 witness: after two alignments a segment that entered with the stale label
\* S1 (the payload of meeting m2) carries S2, and another one carries no label
C4_Witness ==
    /\ aCalls = 2
    /\ Len(aSegs) = 2
    /\ aSegs[1].meeting_id = "m2" /\ aSegs[1].speaker_label = "S2"
    /\ aSegs[2].speaker_label = None

\* C5: one output segment per input segment, in the same order, with meeting
\* id, start, end, text and confidence unchanged.
C5_FrameOfAlignment ==
    aCalls >= 1 =>
        /\ Len(aSegs) = Len(aIn)
        /\ \A i \in 1..Len(aIn) :
              /\ aSegs[i].meeting_id = aIn[i].meeting_id
              /\ aSegs[i].start_time = aIn[i].start_time
              /\ aSegs[i].end_time = aIn[i].end_time
              /\ aSegs[i].text = aIn[i].text
              /\ aSegs[i].confidence = aIn[i].confidence

\* C5 witness: two different segments were aligned and the label of the first
\* one changed
C5_Witness ==
    /\ aCalls = 1
    /\ Len(aIn) = 2
    /\ aIn[1].meeting_id # aIn[2].meeting_id
    /\ aIn[1].start_time # aIn[2].start_time
    /\ aSegs[1].speaker_label # aIn[1].speaker_label

(***************************************************************************)
(* Claims about update_speaker_embedding                                   *)
(***************************************************************************)
\* the numbers of a stored "[x1,x2,...]" text, in order
C7_Stored(text) == LET IsNum(t) == t.k = "num" IN [i \in 1..Len(SelectSeq(text, IsNum)) |-> SelectSeq(text, IsNum)[i].v]

\* x = new * w + old * (1 - w), as an identity between integers
C7_IsAverage(x, new, old, w) ==
    x.n * (w.d * new.d * old.d) =
        x.d * (new.n * w.n * old.d + old.n * (w.d - w.n) * new.d)

\* caller c's call returns True in this step
C7_Returns(c) == uPc[c] = "save" /\ uPc'[c] = "returned"

\* C7: a call update_speaker_embedding(id, new, w) that succeeds leaves the
\* stored vector equal, component by component, to new*w + old*(1-w) when a
\* prior vector existed (unchanged for w = 0, equal to new for w = 1), and
\* equal to new when none existed.
C7_WeightedUpdate ==
    [][\A c \in Callers : C7_Returns(c) =>
        LET a == uArgs[c]
            old == uReg[a.id]
            now == C7_Stored(uReg'[a.id])
        IN  /\ Len(now) = Len(a.new)
            /\ old = NoEmbedding => now = a.new
            /\ old # NoEmbedding =>
                  /\ \A i \in 1..Len(now) :
                        C7_IsAverage(now[i], a.new[i], C7_Stored(old)[i], a.w)
                  /\ a.w = RatZero => uReg'[a.id] = old
                  /\ a.w = RatOne => now = a.new]_vars

\* C7 witness: a call with the default weight has changed a profile that had a
\* prior vector different from the new one
C7_Witness ==
    \E c \in Callers :
        /\ uPc[c] = "returned"
        /\ uArgs[c].w = DefaultWeight
        /\ uReg0[uArgs[c].id] # NoEmbedding
        /\ uReg0[uArgs[c].id] # FormatVector(uArgs[c].new)
        /\ uReg[uArgs[c].id] # uReg0[uArgs[c].id]
        /\ \A d \in Callers \ {c} : uPc[d] = "idle"

\* the stored text after one complete, undisturbed update of a profile
C8_Applied(a, text) == FormatVector(EmbeddingToSave(a, text))

\* C8: when two concurrent runs have both updated the same profile, the stored
\* vector is the result of the two updates applied one after the other, in one
\* of the two orders.
C8_UpdatesSerialized ==
    (/\ uPc["c1"] = "returned" /\ uPc["c2"] = "returned"
     /\ uArgs["c1"].id = uArgs["c2"].id)
    => LET orig == uReg0[uArgs["c1"].id]
       IN  uReg[uArgs["c1"].id] \in
               {C8_Applied(uArgs["c2"], C8_Applied(uArgs["c1"], orig)),
                C8_Applied(uArgs["c1"], C8_Applied(uArgs["c2"], orig))}

(***************************************************************************)
(* Claims about speaker matching in a meeting run                          *)
(***************************************************************************)
\* the labels of the run that were matched to profile P
C6_MatchedTo(P) ==
    {i \in 1..Len(pmEmbeddings) :
        /\ pmEmbeddings[i].label \in DOMAIN pmMatches
        /\ pmMatches[pmEmbeddings[i].label] = P}

\* C6: once a meeting run whose storage calls all succeeded has ended, a label
\* whose vector was matched to a stored profile P (P clears the threshold 0.7)
\* has left P's stored embedding equal to 0.3*new + 0.7*old.
C6_MatchedProfileAveraged ==
    (pmPc \in {"completed", "failed"} /\ pmSaved = pmSegments) =>
        \A P \in MatchProfiles : \A i \in C6_MatchedTo(P) :
            /\ P \in SimilarProfiles(pmReg0, pmEmbeddings[i].embedding, pmUser,
                                      MatchThreshold)
            /\ C6_MatchedTo(P) = {i} =>
                  LET now == C7_Stored(pmReg[P])
                      old == C7_Stored(pmReg0[P])
                      new == pmEmbeddings[i].embedding
                  IN  \A j \in 1..EmbeddingDim :
                          C7_IsAverage(now[j], new[j], old[j], DefaultWeight)

C10_ChunksWithinMax ==
    kPc = "done" =>
        \A i \in 1..Len(kChunks) :
            kChunks[i].end_time - kChunks[i].start_time <= kCfg.max

\* one turn of the loop of _create_chunks has just visited kMerged[kIdx]
CreateChunksIterates == kPc = "chunks" /\ kIdx <= Len(kMerged) /\ kIdx' = kIdx + 1

\* C11: with respect_speaker_changes enabled, a segment whose speaker (speaker
\* id or diarization label) differs from the speaker of the running chunk
\* closes that chunk before it is added, so no chunk holds two speakers.
C11_FinalizedOnSpeakerChange ==
    [][(/\ CreateChunksIterates
        /\ kCfg.respect_speaker_changes
        /\ kAcc.texts # <<>>
        /\ \/ kMerged[kIdx].speaker_id # kAcc.speaker_id
           \/ kMerged[kIdx].speaker_label # kAcc.speaker_label)
       => /\ Len(kChunks') = Len(kChunks) + 1
          /\ kAcc'.texts = <<kMerged[kIdx].text>>]_vars

\* the texts of a list of segments or chunks, in order
C12_Texts(list) == [i \in 1..Len(list) |-> list[i].text]

\* a text that is not empty and has no whitespace at either end
C12_Clean(t) == t # <<>> /\ t[1] # Space /\ t[Len(t)] # Space

\* C12 as stated: the texts of the returned chunks, joined with single
\* spaces, equal the texts of the input segments joined with single spaces.
C12_TextsReconstructed ==
    kPc = "done" => JoinSpace(C12_Texts(kChunks)) = JoinSpace(C12_Texts(kSegments))

\* C12 amended: the texts of the returned chunks, joined with single spaces,
\* equal the texts of the pre-merged segments joined with single spaces (the
\* last accumulation included); they equal the joined input texts when every
\* input text is non-empty and free of leading and trailing whitespace, which
\* is what the pre-merge strips from the texts it concatenates.
C12_TextsPreserved ==
    kPc = "done" =>
        /\ JoinSpace(C12_Texts(kChunks)) = JoinSpace(C12_Texts(kMerged))
        /\ (\A i \in 1..Len(kSegments) : C12_Clean(kSegments[i].text)) =>
               JoinSpace(C12_Texts(kChunks)) = JoinSpace(C12_Texts(kSegments))

\* C12 witness: a run over clean texts in which the pre-merge concatenated two
\* segments and the chunker returned two chunks, the second one flushed at
\* the end
C12_Witness ==
    /\ kPc = "done"
    /\ Len(kSegments) = 3
    /\ \A i \in 1..Len(kSegments) : C12_Clean(kSegments[i].text)
    /\ Len(kMerged) = 2
    /\ Len(kChunks) = 2

\* C13: the returned chunk list is numbered 0, 1, ..., n-1 in order, its start
\* times never decrease (the input being in start order), and a transcript
\* without segments yields no chunk.
C13_IndexedContiguousOrdered ==
    kPc = "done" =>
        /\ \A i \in 1..Len(kChunks) : kChunks[i].chunk_index = i - 1
        /\ \A i \in 1..(Len(kChunks) - 1) :
              kChunks[i].start_time <= kChunks[i + 1].start_time
        /\ kSegments = <<>> => kChunks = <<>>
        /\ kSegments # <<>> => kChunks # <<>>

\* C13 witness: a transcript of three segments returned as three chunks
C13_Witness == kPc = "done" /\ Len(kSegments) = 3 /\ Len(kChunks) = 3

\* C13 witness of the empty case: chunk_transcript has returned for a
\* transcript without segments
C13_WitnessEmpty == kPc = "done" /\ kSegments = <<>>

(***************************************************************************)
(* Claims about match_speakers                                             *)
(***************************************************************************)
\* match_speakers has just recorded its result for the label at pmIdx
C14_Records == pmPc = "match" /\ pmIdx' = pmIdx + 1

\* the profiles of the run's user that clear the threshold for vector q
C14_Candidates(q) ==
    {p \in MatchProfiles :
        /\ ProfileOwner[p] = pmUser
        /\ pmReg[p] # NoEmbedding
        /\ SimilarityAtLeast(q, C7_Stored(pmReg[p]), MatchThreshold)}

\* C14: the result match_speakers records for a label is None or one profile
\* id; a profile id is always a profile of the caller's user that clears the
\* threshold and that no other such profile beats; when no profile clears the
\* threshold the result is None, and when one does and the lookup succeeded
\* (it was not at its last attempt, the only one whose failure is recorded)
\* the result is a profile.
C14_AtMostOneBestMatch ==
    [][C14_Records =>
        LET e == pmEmbeddings[pmIdx]
            v == pmMatches'[e.label]
            S == C14_Candidates(e.embedding)
        IN  /\ DOMAIN pmMatches' = DOMAIN pmMatches \cup {e.label}
            /\ v \in MatchProfiles \cup {None}
            /\ v # None =>
                  /\ Len(e.embedding) = EmbeddingDim
                  /\ v \in S
                  /\ \A y \in S : MoreSimilar(e.embedding, C7_Stored(pmReg[v]),
                                               C7_Stored(pmReg[y]))
            /\ S = {} => v = None
            /\ (S # {} /\ Len(e.embedding) = EmbeddingDim /\ pmAttempt < MaxAttempts)
                  => v # None]_vars

\* C14 witness: a label was matched to the better of two profiles of the
\* user that clear the threshold, while another user's profile stores the
\* observed vector itself
C14_Witness ==
    /\ pmPc = "transcript"
    /\ pmUser = "userA"
    /\ Len(pmEmbeddings) = 1
    /\ pmEmbeddings[1].embedding = NearFirst
    /\ pmReg["p1"] = FormatVector(UnitVector(1, EmbeddingDim))
    /\ pmReg["p2"] = FormatVector(UnitVector(2, EmbeddingDim))
    /\ pmReg["p3"] = FormatVector(UnitVector(1, EmbeddingDim))
    /\ pmMatches[pmEmbeddings[1].label] = "p1"

\* the results a label with vector q can get from a run that holds no other
\* label, on the registry as it was before the run
C15_Alone(q) ==
    IF Len(q) # EmbeddingDim THEN {None}
    ELSE {None} \cup
         {BestMatch(r) : r \in FindSimilarSpeakers(pmReg0, q, pmUser, MatchThreshold)}

\* C15: when match_speakers records the result of a label, failed lookup or
\* not, the results of the labels before it stay as they are, the registry is
\* untouched, the loop goes on to the next label with a fresh lookup (or
\* returns after the last one), a vector of the wrong dimension gives None for
\* its own label only, and the result is one the label can get when it is
\* processed alone.
C15_FailureIsLocal ==
    [][C14_Records =>
        LET e == pmEmbeddings[pmIdx]
        IN  /\ DOMAIN pmMatches' = DOMAIN pmMatches \cup {e.label}
            /\ \A l \in DOMAIN pmMatches \ {e.label} : pmMatches'[l] = pmMatches[l]
            /\ pmReg' = pmReg
            /\ pmAttempt' = 1
            /\ pmPc' = IF pmIdx < Len(pmEmbeddings) THEN "match" ELSE "transcript"
            /\ Len(e.embedding) # EmbeddingDim => pmMatches'[e.label] = None
            /\ pmMatches'[e.label] \in C15_Alone(e.embedding)]_vars

\* once match_speakers has returned, every label of the batch has a result
C15_BatchReturnsAll ==
    pmPc \notin {"step7", "match"} =>
        DOMAIN pmMatches = {pmEmbeddings[i].label : i \in 1..Len(pmEmbeddings)}

\* C15 witness: the lookup of the first label failed on the dimension of its
\* vector and the second label was still matched to a profile
C15_Witness ==
    /\ pmPc = "transcript"
    /\ Len(pmEmbeddings) = 2
    /\ Len(pmEmbeddings[1].embedding) # EmbeddingDim
    /\ pmMatches[pmEmbeddings[1].label] = None
    /\ pmMatches[pmEmbeddings[2].label] # None

\* the labels of the run that have a vector and were matched to no profile
C16_Unmatched ==
    {i \in 1..Len(pmEmbeddings) :
        /\ pmEmbeddings[i].label \in DOMAIN pmMatches
        /\ pmMatches[pmEmbeddings[i].label] = None}

\* C16: once a meeting run whose storage calls all succeeded has ended, it has
\* ended as completed, and every label with an observed vector that was matched
\* to no profile has a profile that had no embedding before the run and now
\* stores exactly the observed vector.
C16_UnmatchedGetsNewProfile ==
    (pmPc \in {"completed", "failed"} /\ pmSaved = pmSegments) =>
        \A i \in C16_Unmatched :
            /\ pmPc = "completed"
            /\ \E P \in DOMAIN pmReg :
                  /\ pmReg0[P] = NoEmbedding
                  /\ pmReg[P] = FormatVector(pmEmbeddings[i].embedding)

(***************************************************************************)
(* Claims about a run of the STT pipeline                                  *)
(***************************************************************************)
\* C17: once speaker-embedding extraction has raised, process_audio has
\* returned a result and left no exception: the result holds the aligned
\* transcript, one speaker without embedding per diarized label, and an empty
\* speaker_embeddings.
C17_ExtractionFailureTolerated ==
    "embed" \in paFailed =>
        /\ paPc = "returned"
        /\ paError = None
        /\ Len(paResult) = 1
        /\ paResult[1].transcript.segments = paAligned
        /\ paAligned = AlignWithTranscript(paDiarization, paSegments)
        /\ paResult[1].speaker_embeddings = <<>>
        /\ LET speakers == paResult[1].speakers
               labels == {paDiarization[i].label : i \in 1..Len(paDiarization)}
           IN  /\ Len(speakers) = Cardinality(labels)
               /\ {speakers[i].id : i \in 1..Len(speakers)} = labels
               /\ \A i \in 1..Len(speakers) : speakers[i].embedding = <<>>

\* C17 witness: extraction raised in a run with two transcript segments and two
\* diarized labels, and the run returned its result
C17_Witness ==
    /\ "embed" \in paFailed
    /\ paPc = "returned"
    /\ Len(paResult[1].transcript.segments) = 2
    /\ Len(paResult[1].speakers) = 2

\* C18: once the transcription call or the diarization call has raised, the
\* run has ended with that typed error and without result, and neither
\* alignment nor embedding extraction (nor, after a failed transcription,
\* diarization) was entered.
C18_FatalStagesAbort ==
    (paFailed \cap {"transcribe", "diarize"} # {}) =>
        /\ paPc = "raised"
        /\ paResult = <<>>
        /\ paError = IF "transcribe" \in paFailed THEN "TranscriptionError"
                     ELSE "DiarizationError"
        /\ \A i \in 1..Len(paStages) : paStages[i] \notin {"align", "embed", "finished"}
        /\ "transcribe" \in paFailed =>
              \A i \in 1..Len(paStages) : paStages[i] # "diarize"

\* C18 witness: diarization raised after a transcription that returned segments
C18_Witness ==
    /\ "diarize" \in paFailed
    /\ paPc = "raised"
    /\ paSegments # <<>>

\* the stages of a run from transcription on, in the order of the code
C19_Order == <<"transcribe", "diarize", "align", "embed", "finished">>

C19_Run == SelectSeq(paStages, LAMBDA st : st \notin {"preprocess", "metadata"})

\* C19: the stages entered so far are an initial part of transcribe, diarize,
\* align, embed, finished (so each is entered once at most and in that order);
\* a stage is entered only when the call of every stage before it has returned
\* (for embedding extraction: returned or raised); and a result exists only
\* in a run that went through alignment and finished.
C19_StagesInOrder ==
    /\ Len(C19_Run) <= Len(C19_Order)
    /\ C19_Run = SubSeq(C19_Order, 1, Len(C19_Run))
    /\ \A k \in 1..(Len(C19_Run) - 1) :
          /\ paPc # C19_Run[k]
          /\ C19_Run[k] \in paFailed => C19_Run[k] = "embed"
    /\ paResult # <<>> =>
          /\ C19_Run = C19_Order
          /\ paAligned = AlignWithTranscript(paDiarization, paSegments)

\* C19 witness: a run that went through every stage and returned a result with
\* speakers
C19_Witness ==
    /\ paPc = "returned"
    /\ C19_Run = C19_Order
    /\ paResult[1].speakers # <<>>

\* C20: once shutdown has been requested during a run, the return of the call
\* being awaited is not followed by the start of another stage.
C20_StopsAtNextTransition ==
    [][(~paRunning /\ paPc \in {"transcribe", "diarize", "align"})
          => paStages' = paStages]_vars

(***************************************************************************)
(* Claims about meeting runs                                               *)
(***************************************************************************)
\* C21: a process_meeting run that has ended, alone or next to another run,
\* and in which no step or only one of the processing steps 2 to 9 failed,
\* has left its meeting with status completed or failed.
C21_EndsCompletedOrFailed ==
    \A m \in RunMeetings :
        (rPc[m] = "done" /\ rFailedAt[m] \in {None, "work"})
            => rStatus[m] \in {"completed", "failed"}

\* the same for the runs in whose error handler no call raised
C21_EndsCompletedOrFailedUnlessHandlerFault ==
    \A m \in RunMeetings :
        (rPc[m] = "done" /\ ~rHandlerFault[m]) => rStatus[m] \in {"completed", "failed"}

(***************************************************************************)
(* Claims about the confidence of merged segments                          *)
(***************************************************************************)
\* the confidences of the units that make up the merged segment o: the units
\* are ordered and do not overlap, so they are those lying within its span
C22_Confidences(o) ==
    LET inside == SelectSeq(mUnits, LAMBDA u :
                      o.start <= u.start /\ u.end <= o.end /\ u.confidence # NoConf)
    IN  [i \in 1..Len(inside) |-> inside[i].confidence[1]]

RECURSIVE C22_Sum(_)
C22_Sum(xs) == IF xs = <<>> THEN 0 ELSE Head(xs) + C22_Sum(Tail(xs))

\* C22: when the merger has returned, the confidence of every merged segment
\* is the arithmetic mean of the confidences its units carry (a unit without
\* one is left out), and is absent only when none of its units carries one.
C22_ConfidenceIsMean ==
    mPc = "done" =>
        \A k \in 1..Len(mOut) :
            LET cs == C22_Confidences(mOut[k])
            IN  IF cs = <<>> THEN mOut[k].confidence = NoConf
                ELSE /\ mOut[k].confidence # NoConf
                     /\ mOut[k].confidence[1] * Len(cs) = C22_Sum(cs)

(***************************************************************************)
(* Claims about calculate_similarity                                       *)
(***************************************************************************)
C23_Negated(v) == [i \in 1..Len(v) |-> 0 - v[i]]

C23_IsZero(v) == \A i \in 1..Len(v) : v[i] = 0

C24_Iterates == kPc = "merge" /\ kIdx <= Len(kSegments) /\ kIdx' = kIdx + 1

C24_Duration(seg) == seg.end_time - seg.start_time

\* C24 as stated: a turn of the pre-merge loop concatenates the next segment
\* to the running one only when both are of the same speaker, both are shorter
\* than min_chunk_duration and the combined span is at most
\* max_chunk_duration.
C24_MergesOnlyShortSegments ==
    [][(C24_Iterates /\ kMerged' = kMerged) =>
          /\ kCurrent.speaker_id = kSegments[kIdx].speaker_id
          /\ kCurrent.speaker_label = kSegments[kIdx].speaker_label
          /\ C24_Duration(kCurrent) < kCfg.min
          /\ C24_Duration(kSegments[kIdx]) < kCfg.min
          /\ kSegments[kIdx].end_time - kCurrent.start_time <= kCfg.max]_vars

\* C24 amended: a turn of the pre-merge loop concatenates the next segment to
\* the running one exactly when both are of the same speaker, the running
\* segment is shorter than min_chunk_duration and the combined span is at most
\* max_chunk_duration, whatever the duration of the next segment; the result
\* spans from the running start to the next end and its text is the two texts
\* joined by one space and stripped.  Otherwise the running segment is emitted
\* as it is and the next one becomes the running segment.
C24_MergesIffRunningShort ==
    [][C24_Iterates =>
          LET cur == kCurrent
              nxt == kSegments[kIdx]
          IN  IF /\ cur.speaker_id = nxt.speaker_id
                 /\ cur.speaker_label = nxt.speaker_label
                 /\ C24_Duration(cur) < kCfg.min
                 /\ nxt.end_time - cur.start_time <= kCfg.max
              THEN /\ kMerged' = kMerged
                   /\ kCurrent'.start_time = cur.start_time
                   /\ kCurrent'.end_time = nxt.end_time
                   /\ kCurrent'.text = Strip(cur.text \o <<" ">> \o nxt.text)
                   /\ kCurrent'.speaker_id = cur.speaker_id
                   /\ kCurrent'.speaker_label = cur.speaker_label
              ELSE /\ kMerged' = Append(kMerged, cur)
                   /\ kCurrent' = nxt]_vars

\* C24 witness: a short first segment has absorbed a second segment that is
\* not short
C24_Witness ==
    /\ kPc = "merge"
    /\ kIdx = 3
    /\ kMerged = <<>>
    /\ C24_Duration(kSegments[1]) < kCfg.min
    /\ C24_Duration(kSegments[2]) >= kCfg.min
    /\ kCurrent.start_time = kSegments[1].start_time
    /\ kCurrent.end_time = kSegments[2].end_time

(***************************************************************************)
(* C25                                                                     *)
(***************************************************************************)

\* the segment visited by the loop has the speaker of the running chunk
C25_SameSpeaker ==
    /\ kMerged[kIdx].speaker_id = kAcc.speaker_id
    /\ kMerged[kIdx].speaker_label = kAcc.speaker_label

\* the running chunk has reached the target duration and its last text ends a
\* sentence
C25_TargetAtSentenceEnd ==
    /\ kAcc.end - kAcc.start[1] >= kCfg.target
    /\ IsSentenceEnd(kAcc.texts[Len(kAcc.texts)])

\* C25: in the greedy grouping, when the next segment has the speaker of the
\* running chunk and adding it would not exceed the maximum duration, the
\* running chunk is finalized before the segment is added if and only if its
\* accumulated duration has reached the target and its last text ends at a
\* sentence boundary; otherwise the segment joins the running chunk.
C25_FinalizesIffTargetAtSentenceEnd ==
    [][(/\ CreateChunksIterates
        /\ kAcc.texts # <<>>
        /\ C25_SameSpeaker
        /\ kMerged[kIdx].end_time - kAcc.start[1] <= kCfg.max)
       => IF C25_TargetAtSentenceEnd
          THEN /\ Len(kChunks') = Len(kChunks) + 1
               /\ kChunks'[Len(kChunks')].end_time = kAcc.end
               /\ kChunks'[Len(kChunks')].text = JoinSpace(kAcc.texts)
               /\ kAcc'.texts = <<kMerged[kIdx].text>>
          ELSE /\ kChunks' = kChunks
               /\ kAcc'.texts = Append(kAcc.texts, kMerged[kIdx].text)]_vars

\* a chunk that reached the target at a sentence end was closed although the
\* next segment had the same speaker and would have fitted under the maximum
C25_Witness ==
    /\ kPc = "chunks"
    /\ Len(kChunks) = 1
    /\ Len(kAcc.texts) = 1
    /\ kAcc.speaker_id = kChunks[1].speaker_id
    /\ kAcc.speaker_label = kChunks[1].speaker_label
    /\ kChunks[1].end_time - kChunks[1].start_time >= kCfg.target
    /\ kAcc.end - kChunks[1].start_time <= kCfg.max

(***************************************************************************)
(* C26                                                                     *)
(***************************************************************************)

RECURSIVE C26_Expected(_, _)
\* the segments of the records of a batch that have sound times, in order
C26_Expected(engine, recs) ==
    IF recs = <<>> THEN <<>>
    ELSE IF /\ PassesThreshold(engine, Head(recs))
            /\ Head(recs).start >= 0
            /\ Head(recs).end >= Head(recs).start
         THEN <<ConvertedSegment(engine, Head(recs))>> \o C26_Expected(engine, Tail(recs))
         ELSE C26_Expected(engine, Tail(recs))

\* C26: a record with a negative time or an end before its start is left out
\* alone: the conversion never aborts, and once it has ended its output is
\* exactly the segments of the other records of the batch.
C26_BadRecordOmittedAlone ==
    /\ cvPc # "raised"
    /\ cvPc = "returned" /\ cvEngine # None
       => cvOut = C26_Expected(cvEngine, cvRecords)

\* the same statement for the WhisperX engine alone
C26_WhisperxOmitsBadRecordAlone ==
    cvEngine = "whisperx"
    => /\ cvPc # "raised"
       /\ cvPc = "returned" => cvOut = C26_Expected(cvEngine, cvRecords)

(***************************************************************************)
(* C29                                                                     *)
(***************************************************************************)

\* a call of the wrapper is under way or has ended
C29_Called == rbCfg # <<>>

\* C29: with max_attempts = n >= 1 the wrapped function is invoked at most n
\* times and re-tried at most n - 1 times; no attempt follows a successful
\* one, whose result the wrapper returns; the wrapper returns only after a
\* successful attempt; and when all n attempts failed it raises the exception
\* of the last attempt.
C29_AtMostNAttempts ==
    C29_Called /\ rbCfg.max_attempts >= 1
    => /\ Len(rbHistory) <= rbCfg.max_attempts
       /\ Len(rbSlept) <= rbCfg.max_attempts - 1
       /\ \A i \in 1 .. Len(rbHistory) - 1 : ~rbHistory[i].ok
       /\ rbPc = "returned"
          => /\ rbHistory # <<>>
             /\ rbHistory[Len(rbHistory)].ok
             /\ rbOutcome = <<rbHistory[Len(rbHistory)]>>
       /\ rbPc # "returned" => \A i \in 1 .. Len(rbHistory) : ~rbHistory[i].ok
       /\ Len(rbHistory) = rbCfg.max_attempts /\ ~rbHistory[Len(rbHistory)].ok
          => /\ rbPc = "raised"
             /\ rbOutcome = <<rbHistory[Len(rbHistory)]>>

\* all three attempts of a call with max_attempts = 3 failed and the wrapper
\* raised after two sleeps
C29_Witness ==
    /\ C29_Called
    /\ rbCfg.max_attempts = 3
    /\ Len(rbHistory) = 3
    /\ Len(rbSlept) = 2
    /\ rbPc = "raised"

(***************************************************************************)
(* C27                                                                     *)
(***************************************************************************)

\* C27: once a call of _apply_template_tags has returned without a failed
\* database read, a meeting whose template has tags is not left without
\* tags: either it had tags of its own, which are unchanged, or the
\* template's tags were applied.
C27_TemplateTagsApplied ==
    /\ tgCalls >= 1
    /\ tgCalls <= MaxTagCalls
    /\ tgPc = "idle"
    /\ ~tgDbFailed
    /\ tgMeeting # <<>>
    /\ tgTemplate # <<>>
    => (tgMeeting[1].template_id # None /\ tgTemplate[1].tags # <<>>
        => tgMeeting[1].tags # <<>>)

\* the rest of C27: a call never changes tags the meeting already has, a
\* second call changes nothing, and every failure is swallowed (the call
\* always returns to process_meeting)
C27_NeverOverwrites ==
    [][/\ tgMeeting # <<>> /\ tgMeeting[1].tags # <<>> => tgMeeting' = tgMeeting
       /\ tgCalls >= 1 => tgMeeting' = tgMeeting]_vars

(***************************************************************************)
(* C28                                                                     *)
(***************************************************************************)

\* C28: current_jobs is never negative and always equals the number of
\* process_meeting / process_local_audio invocations in progress, whether
\* they end in success or in failure, so that it is 0 whenever none is in
\* progress, in particular when stop() looks at it.
C28_CountsJobsInProgress ==
    /\ current_jobs >= 0
    /\ current_jobs = Cardinality(JobsInProgress)
    /\ JobsInProgress = {} => current_jobs = 0

\* an invocation has returned while another is still in progress
C28_Witness ==
    /\ current_jobs = 1
    /\ Cardinality(JobsInProgress) = 1
    /\ \E m \in DOMAIN meetingStatus : meetingStatus[m] \in {"completed", "failed"}

\* the same count for two concurrent process_meeting runs with every failure
\* path of the run
C28_RunCountsJobsInProgress ==
    rJobs = Cardinality({m \in RunMeetings : rPc[m] \notin {"idle", "done"}})

(***************************************************************************)
(* C30                                                                     *)
(***************************************************************************)

\* the _handle_new_file task of path f is under way
C30_Handled(f) == handler[f].pc # "none"

\* C30: a path has a running _handle_new_file task exactly when it is in
\* processing_files; a creation event for a path whose task is running
\* starts no second task and leaves that task as it is; a task enters the
\* processing callback only on a check that finds the size non-zero and equal
\* to the previous check's, the FILE_STABLE_CHECK_COUNT-th such check in a
\* row, and never twice; and when a task ends its path leaves
\* processing_files.
C30_OneHandlerPerPath ==
    [][\A f \in Files :
          /\ C30_Handled(f) <=> f \in processing_files
          /\ C30_Handled(f) /\ disk[f] = Absent /\ disk'[f] # Absent
             => /\ handler'[f] = handler[f]
                /\ processing_files' = processing_files
          /\ handler[f].pc = "stable" /\ handler'[f].pc = "stable"
                /\ handler'[f] # handler[f]
             => /\ handler'[f].previous_size = disk[f]
                /\ IF disk[f] > 0 /\ disk[f] = handler[f].previous_size
                   THEN handler'[f].stable_checks = handler[f].stable_checks + 1
                   ELSE handler'[f].stable_checks = 0
          /\ handler[f].pc # "job" /\ handler'[f].pc = "job"
             => /\ handler[f].pc = "stable"
                /\ disk[f] > 0
                /\ disk[f] = handler[f].previous_size
                /\ handler[f].stable_checks = FILE_STABLE_CHECK_COUNT - 1
          /\ handler[f].pc = "job" /\ handler'[f] # handler[f]
             => handler'[f].pc = "none"
          /\ C30_Handled(f) /\ handler'[f].pc = "none"
             => f \notin processing_files']_vars

\* the callback runs for one path while a creation event for the same path,
\* removed and written again in the meantime, has been ignored
C30_Witness ==
    \E f \in Files :
        /\ handler[f].pc = "job"
        /\ handler[f].stable_checks = FILE_STABLE_CHECK_COUNT
        /\ disk[f] # Absent
        /\ disk[f] < handler[f].previous_size

====
